---- MODULE Spec2Model ----
(***************************************************************************)
(* Model of the Cursor Telegram bot: the file-backed image cache           *)
(* (image-cache.ts), the photo handler (bot.ts), the startTask tool        *)
(* (agent.ts), the task table (database.ts) and the task monitor (bot.ts). *)
(*                                                                         *)
(* Time is counted in minutes: Date.now() and a file's mtime are natural   *)
(* numbers, CACHE_TTL = 3 * 60 * 1000 ms = 3 minutes.                      *)
(***************************************************************************)
EXTENDS Integers, Sequences, FiniteSets, TLC

\* ------------------------------------------------------------------ bounds
MaxTime == 4
MaxPhotos == 2
MaxStarts == 2
MaxCycles == 2
MaxCalls == 2
MaxRows == 2
MaxTurns == 2
MaxRequests == 2
MaxLists == 3

\* ------------------------------------------------------- program constants
CACHE_TTL == 3
HISTORY_LIMIT == 50
maxSteps == 20
maxRetries == 3
\* The TTLs of the list caches, in minutes: CURSOR_REPOS_TTL_MS at its default
\* of 60000 ms, CURSOR_MODELS_TTL_MS configured as 120000 ms.
repositoriesCacheTtlMs == 1
modelsCacheTtlMs == 2

\* ------------------------------------------------------------- value sets
UserIds == {1, 2}
ChatIds == {10}
Keys == UserIds \X ChatIds
StartProcs == {"s1", "s2"}
CreateStatuses == {"CREATING", "RUNNING"}
MonProcs == {"m1", "m2"}
ToolProcs == {"t1", "t2"}
TurnProcs == {"a1", "a2"}
RepoA == "https://github.com/a/b"
RepoX == "https://github.com/x/y"
Repos == {RepoA, RepoX}
Description == "build a login page"

\* process.env.ALLOWED_REPOS: unset, or the comma-separated items of the
\* string, each item a url with or without surrounding blanks.
Raw(url, padded) == [url |-> url, padded |-> padded]
Unset == [set |-> FALSE, items |-> <<>>]
EnvString(items) == [set |-> TRUE, items |-> items]
EmptyString == EnvString(<<Raw("", FALSE)>>)
EnvValues ==
  { Unset,
    EmptyString,
    EnvString(<<Raw(RepoA, FALSE)>>),
    EnvString(<<Raw(RepoA, TRUE), Raw("", FALSE)>>) }

VARIABLES
  now,        \* Date.now(), in minutes
  files,      \* the image-cache directory: one file per cache key
  nextImg,    \* number of photos received so far (names the images)
  env,        \* process.env.ALLOWED_REPOS
  st,         \* the startTask executions
  nStarts,    \* number of startTask executions begun
  posts,      \* number of POST /v0/agents requests sent
  agents,     \* the remote service: status of each agent, by id
  tasks,      \* the tasks table, row id = index
  ev,         \* the last operation and what it found
  chain,      \* per key: images appended one after another within the TTL
  chainOk,    \* per key: the chain started from no group and was not disturbed
  lastAppend, \* per key: time of the last append of the chain
  dead,       \* images of the groups that were found older than the TTL
  mon,        \* the monitorTasks cycles
  tool,       \* the getTaskStatus and stopTask executions
  cycles,     \* number of monitor cycles begun
  calls,      \* number of getTaskStatus and stopTask executions begun
  sent,       \* per task row: the notifications delivered for it
  gh,         \* per task row: what the monitor observed and sent for it
  mev,        \* the last step, if the monitor finished with a task in it
              \* or a tool returned in it
  log,        \* the conversation_messages table, row id = index
  steps,      \* the conversation_steps table, row id = index
  turn,       \* the Agent.processMessage executions
  currentStepNumber, \* the field of that name of each Agent instance
  nTurns,     \* number of processMessage executions begun
  snd,        \* the safeSendMessage / safeReply execution
  req,        \* the CursorOfficialApi.request execution and its timer
  lst,        \* listRepositories / listModels: module state, callers, requests
  hnd,        \* the processUserMessage executions and their typing timers
  msgs,       \* the messages table, row id = index
  acc,        \* the access middleware: the update, the rows of users and chats
  shown       \* the tasks last shown to a caller

cacheVars == <<now, files, nextImg, chain, chainOk, lastAppend, dead>>
startVars == <<env, st, nStarts, posts>>
taskVars == <<agents, tasks, gh>>
monVars == <<mon, tool, cycles, calls, sent, mev>>
agentVars == <<log, steps, turn, currentStepNumber, nTurns>>
botVars == <<snd, req, lst, hnd, msgs, acc, shown>>
modelVars == <<cacheVars, startVars, taskVars, monVars, agentVars, ev>>
vars == <<modelVars, botVars>>

\* ------------------------------------------------------------ image cache
Absent == [exists |-> FALSE, mtime |-> 0, images |-> <<>>]

Range(s) == {s[i] : i \in 1..Len(s)}

getCacheKey(userId, chatId) == <<userId, chatId>>

\* Mutant: a rewrite of an existing file keeps its old write time.
saveImagesToCache_KeepsClock(fs, t, userId, chatId, images) ==
  LET key == getCacheKey(userId, chatId)
  IN  [fs EXCEPT ![key] =
         [exists |-> TRUE, mtime |-> IF fs[key].exists THEN fs[key].mtime ELSE t,
          images |-> images]]

\* fs.writeFileSync(filePath, {images, timestamp}): the file's mtime is now.
saveImagesToCache(fs, t, userId, chatId, images) ==
  [fs EXCEPT ![getCacheKey(userId, chatId)] =
     [exists |-> TRUE, mtime |-> t, images |-> images]]

\* Mutant: an expired group is reported empty but its file is not unlinked.
getImagesFromCache_KeepsFile(fs, t, userId, chatId) ==
  LET key == getCacheKey(userId, chatId)
      age == t - fs[key].mtime
  IN  IF ~fs[key].exists \/ age > CACHE_TTL
        THEN [images |-> <<>>, files |-> fs]
        ELSE [images |-> fs[key].images, files |-> fs]

\* Mutant: a group expires one minute late.
getImagesFromCache_LateExpiry(fs, t, userId, chatId) ==
  LET key == getCacheKey(userId, chatId)
      age == t - fs[key].mtime
  IN  IF ~fs[key].exists
        THEN [images |-> <<>>, files |-> fs]
      ELSE IF age > CACHE_TTL + 1
        THEN [images |-> <<>>, files |-> [fs EXCEPT ![key] = Absent]]
      ELSE [images |-> fs[key].images, files |-> fs]

\* getImagesFromCache: the images returned and the directory afterwards.
getImagesFromCache(fs, t, userId, chatId) ==
  LET key == getCacheKey(userId, chatId)
      age == t - fs[key].mtime
  IN  IF ~fs[key].exists
        THEN [images |-> <<>>, files |-> fs]
      ELSE IF age > CACHE_TTL
        THEN [images |-> <<>>, files |-> [fs EXCEPT ![key] = Absent]]
      ELSE [images |-> fs[key].images, files |-> fs]

\* Mutant: the clear removes every file of the directory.
clearImagesFromCache_All(fs, userId, chatId) ==
  [key \in DOMAIN fs |-> Absent]

clearImagesFromCache(fs, userId, chatId) ==
  LET key == getCacheKey(userId, chatId)
  IN  IF fs[key].exists THEN [fs EXCEPT ![key] = Absent] ELSE fs

\* Mutant: the sweep also deletes a group whose age equals the TTL.
sweepFiles_Inclusive(fs, t) ==
  [key \in DOMAIN fs |->
     IF fs[key].exists /\ t - fs[key].mtime >= CACHE_TTL THEN Absent ELSE fs[key]]

\* The body of cleanupImageCache's loop, over every file of the directory.
sweepFiles(fs, t) ==
  [key \in Keys |->
     IF fs[key].exists /\ t - fs[key].mtime > CACHE_TTL THEN Absent ELSE fs[key]]

\* The last operation, if it was one of the image cache: its name, cache key
\* and startTask execution; whether the key's file existed and whether it was
\* older than the TTL before it.
NoEv == [op |-> "none", key |-> <<0, 0>>, proc |-> "none",
         existed |-> FALSE, expired |-> FALSE]
Ev(op, key, proc) == [NoEv EXCEPT !.op = op, !.key = key, !.proc = proc]
EvFile(op, key, proc, file, t) ==
  [op |-> op, key |-> key, proc |-> proc, existed |-> file.exists,
   expired |-> file.exists /\ t - file.mtime > CACHE_TTL]

\* ------------------------------------------------------------- startTask
\* Mutant: the empty string is split like any other value.
allowedReposOf_SplitsEmpty(e) ==
  IF ~e.set
    THEN <<>>
    ELSE [i \in 1..Len(e.items) |-> e.items[i].url]

\* process.env.ALLOWED_REPOS ? ALLOWED_REPOS.split(',').map(trim) : []
allowedReposOf(e) ==
  IF ~e.set \/ e = EmptyString
    THEN <<>>
    ELSE [i \in 1..Len(e.items) |-> e.items[i].url]

Undefined == [present |-> FALSE, list |-> <<>>]
Some(list) == [present |-> TRUE, list |-> list]

\* CursorOfficialApi.mapImages
mapImages(images) ==
  IF ~images.present \/ Len(images.list) = 0 THEN Undefined ELSE Some(images.list)

\* The request body of CursorOfficialApi.createAgent; JSON.stringify leaves
\* out a field whose value is undefined.
createAgentBody(text, images, repository) ==
  [text |-> text, images |-> mapImages(images), repository |-> repository]

\* Mutant: startTask forgets the cached images.
startTaskImages_None(images) == [present |-> FALSE, list |-> <<>>]

\* What startTask passes as params.images.
startTaskImages(images) == IF Len(images) > 0 THEN Some(images) ELSE Undefined

NoBody == [text |-> "", images |-> Undefined, repository |-> ""]

\* A row of the tasks table (Database.createTask).
TaskRow(userId, chatId, composerId, repoUrl, desc, status) ==
  [user_id |-> userId, chat_id |-> chatId, composer_id |-> composerId,
   repo_url |-> repoUrl, task_description |-> desc, status |-> status]

\* The payloads startTask returns.
NoRet ==
  [kind |-> "none", why |-> "", allowed |-> <<>>, composerId |-> 0,
   taskId |-> 0, attached |-> 0]
NotAllowed(allowed) ==
  [NoRet EXCEPT !.kind = "error", !.why = "not in allowed list",
                !.allowed = allowed]
Failed == [NoRet EXCEPT !.kind = "error", !.why = "failed to start task"]
Success(composerId, taskId, attached) ==
  [NoRet EXCEPT !.kind = "success", !.composerId = composerId,
                !.taskId = taskId, !.attached = attached]

\* A startTask execution: where it is, its arguments, the request body it
\* sent, what the service answered and the row it wrote.
Idle == [pc |-> "idle", key |-> <<0, 0>>, repo |-> "", desc |-> "",
         body |-> NoBody, remoteId |-> 0, status |-> "", taskId |-> 0,
         ret |-> NoRet]
Done(key, repoUrl, ret) ==
  [Idle EXCEPT !.pc = "done", !.key = key, !.repo = repoUrl, !.ret = ret]

\* Mutant: the next update is handled while a handler is still running.
nextUpdate_Concurrent(busy) == TRUE

\* await bot.start(): the updates are handled one after the other, the next
\* one when the handler of the one before (await next() down to
\* processUserMessage) has returned.
nextUpdate(busy) == ~busy

\* A startTask execution is under way.
running(s) == s.pc \notin {"idle", "done"}

\* ------------------------------------------------------- tasks and monitor
\* Database.updateTask: UPDATE tasks SET status = ? WHERE id = ?
updateTask(rows, id, status) == [rows EXCEPT ![id].status = status]

\* Database.getActiveTasks: the rows whose status is neither CANCELLED nor
\* COMPLETED, the latest created first, each with its row id.
getActiveTasks(rows) ==
  LET n == Len(rows)
      latestFirst == [j \in 1..n |-> n + 1 - j]
      active == SelectSeq(latestFirst,
                  LAMBDA id : rows[id].status \notin {"CANCELLED", "COMPLETED"})
  IN  [j \in 1..Len(active) |-> [id |-> active[j], row |-> rows[active[j]]]]

\* Database.getTaskByComposerId: the first row with that composer_id, 0 if none.
getTaskByComposerId(rows, composerId) ==
  LET found == {id \in 1..Len(rows) : rows[id].composer_id = composerId}
  IN  IF found = {} THEN 0 ELSE CHOOSE id \in found : \A other \in found : id <= other

\* Mutant: a finished agent is stored under the name getActiveTasks filters.
storedStatus_Completed(agentStatus) ==
  IF agentStatus = "FINISHED" THEN "COMPLETED" ELSE agentStatus

\* The status the monitor and getTaskStatus store: agent.status as reported.
storedStatus(agentStatus) == agentStatus

\* GET /v0/agents/{id} at the service: the agent's status, or no such agent.
agentStatusOf(as, composerId) ==
  IF composerId \in 1..Len(as) /\ as[composerId] # "DELETED"
    THEN as[composerId] ELSE "fail"

\* The text monitorTasks sends for a new status, and whether it carries the
\* keyboard with the links.
notificationKind(newStatus) ==
  CASE newStatus = "FINISHED" -> "Task completed!"
    [] newStatus = "ERROR" -> "Task failed!"
    [] newStatus = "EXPIRED" -> "Task expired!"
    [] newStatus = "RUNNING" -> "Task is now running"
    [] OTHER -> "Task status updated"

Notification(id, row, newStatus) ==
  [task |-> id, chat |-> row.chat_id, kind |-> notificationKind(newStatus),
   status |-> newStatus, description |-> row.task_description,
   repo |-> row.repo_url, composer |-> row.composer_id,
   keyboard |-> newStatus \in {"FINISHED", "ERROR", "EXPIRED"}]

NoRow == TaskRow(0, 0, 0, "", "", "")
NoMessage == Notification(0, NoRow, "")

\* A monitor cycle: the rows it read, the one it is at, the answer in flight,
\* the message it is sending and whether its updateTask before that message
\* changed the stored status.
IdleMon == [pc |-> "idle", tasks |-> <<>>, i |-> 0, resp |-> "", msg |-> NoMessage,
            changed |-> FALSE]

\* A getTaskStatus or stopTask execution, and the (user, chat) of the turn
\* that called it (context.userId, context.chatId).
IdleTool == [pc |-> "idle", op |-> "", composerId |-> 0, resp |-> "",
             caller |-> <<0, 0>>]

\* Per task row: whether the service finished the agent between two polls,
\* the earlier having observed RUNNING and the row saying RUNNING; the status the last cycle observed for it and how many messages
\* that cycle delivered; the messages of the last two cycles if both observed
\* the same status.
NoGh == [armed |-> FALSE, obs |-> "", nsent |-> 0, pair |-> 0]
NoMev == [op |-> "none", task |-> 0, status |-> ""]

\* ------------------------------------------------------------ conversation
\* The parts of a message: a text, or the result a tool returned.
Part(type, text, buttons) == [type |-> type, text |-> text, buttons |-> buttons]
TextPart(text) == Part("text", text, "")
\* sendButtonMessage's result: {type: 'button_message', text, buttons, message}.
ButtonPayload(text) == Part("button_message", text, "buttons of " \o text)
\* {error: message}
ErrorPayload(toolName) == Part("error", "Failed: " \o toolName, "")
\* Any other result of a tool.
PlainPayload(toolName) == Part("result", toolName, "")
\* The executor threw instead of returning.
Thrown(toolName) == Part("thrown", toolName, "")

CoreMessage(role, content) == [role |-> role, content |-> content]

\* The tools of createToolsWithContext.
ToolNames ==
  {"getRepos", "startTask", "getTaskStatus", "getActiveTasks", "stopTask",
   "addFollowup", "getAvailableModels", "sendButtonMessage"}

\* The executors that have a try/catch around their remote call or store
\* operation.
Guarded == {"getRepos", "startTask", "getTaskStatus", "stopTask", "addFollowup"}

\* A tool call the LLM requests: the tool, the text argument (of
\* sendButtonMessage) and whether the remote call or store operation under
\* the tool fails.
ToolCall(toolName, text, fails) == [tool |-> toolName, text |-> text, fails |-> fails]

\* What the executor of the tool returns, or that it throws.
execute(call) ==
  IF call.tool = "sendButtonMessage" THEN ButtonPayload(call.text)
  ELSE IF ~call.fails THEN PlainPayload(call.tool)
  ELSE IF call.tool \in Guarded THEN ErrorPayload(call.tool)
  ELSE Thrown(call.tool)

\* A processMessage execution: which one it is, where it is, its (user, chat)
\* and message, the history it read, the steps generateText has completed,
\* the response messages and the text of the last step, what it returned and,
\* if that is the error string, what had failed.
NoReturn == [kind |-> "none", text |-> "", buttons |-> ""]
ErrorString == [kind |-> "error", text |-> "Error processing message v2", buttons |-> ""]
FinalText(text) == [kind |-> "text", text |-> text, buttons |-> ""]
ButtonMessage(payload) ==
  [kind |-> "button_message", text |-> payload.text, buttons |-> payload.buttons]

IdleTurn == [id |-> 0, pc |-> "idle", key |-> <<0, 0>>, message |-> "",
             history |-> <<>>, stepCount |-> 0, response |-> <<>>, text |-> "",
             ret |-> NoReturn, cause |-> ""]

\* A row of conversation_messages (saveConversationMessage) with the time of
\* its insertion.
ConversationMessage(userId, chatId, type, data, step, created) ==
  [user_id |-> userId, chat_id |-> chatId, message_type |-> type,
   message_data |-> data, step_number |-> step, created_at |-> created]

\* Database.getConversationMessages: SELECT ... WHERE user_id = ? AND
\* chat_id = ? ORDER BY created_at ASC, step_number ASC LIMIT ?; rows equal in
\* both columns come in the order of their row ids.
getConversationMessages(rows, userId, chatId, limit) ==
  LET mine == SelectSeq(rows, LAMBDA r : r.user_id = userId /\ r.chat_id = chatId)
      n == Len(mine)
      Before(i, j) ==
        \/ mine[i].created_at < mine[j].created_at
        \/ /\ mine[i].created_at = mine[j].created_at
           /\ mine[i].step_number < mine[j].step_number
        \/ /\ mine[i].created_at = mine[j].created_at
           /\ mine[i].step_number = mine[j].step_number
           /\ i < j
      rank == [i \in 1..n |-> Cardinality({j \in 1..n : Before(j, i)}) + 1]
      ordered == [k \in 1..n |-> mine[CHOOSE i \in 1..n : rank[i] = k]]
  IN  SubSeq(ordered, 1, IF n < limit THEN n ELSE limit)

\* Database.getConversationHistory: the messages of those rows.
getConversationHistory(rows, userId, chatId, limit) ==
  LET found == getConversationMessages(rows, userId, chatId, limit)
  IN  [k \in 1..Len(found) |-> found[k].message_data]

\* Agent.saveConversationHistory: one row per message, tagged with the step
\* number of the Agent at that moment.
saveConversationHistory(rows, userId, chatId, messages, step, t) ==
  rows \o [k \in 1..Len(messages) |->
             ConversationMessage(userId, chatId, messages[k].role, messages[k],
                                 step, t)]

\* A row of conversation_steps (saveStepData), and the execution that wrote it.
ConversationStep(userId, chatId, step, by) ==
  [user_id |-> userId, chat_id |-> chatId, step_number |-> step, by |-> by]

\* Mutant: one Agent serves every turn.
agentOf_Shared(t) == "a1"

\* The Agent instance of a turn: processUserMessage makes a new one.
agentOf(t) == t

\* Mutant: generateText goes on as long as the LLM asks for tools.
continueLoop_Always(stepCount) == TRUE

\* generateText with maxSteps: 20 asks the LLM again only below the budget.
continueLoop(stepCount) == stepCount < maxSteps

\* The results of the tools in the response messages, in their order.
RECURSIVE toolResults(_)
toolResults(messages) ==
  IF messages = <<>> THEN <<>>
  ELSE (IF Head(messages).role = "tool" THEN Head(messages).content ELSE <<>>)
       \o toolResults(Tail(messages))

\* Mutant: the last button message wins.
returnValue_LastButton(messages, text) ==
  LET buttons == SelectSeq(toolResults(messages),
                           LAMBDA r : r.type = "button_message")
  IN  IF buttons # <<>> THEN ButtonMessage(buttons[Len(buttons)])
      ELSE FinalText(text)

\* What processMessage returns after the loop: the first tool result tagged
\* button_message, else result.text.
returnValue(messages, text) ==
  LET buttons == SelectSeq(toolResults(messages),
                           LAMBDA r : r.type = "button_message")
  IN  IF buttons # <<>> THEN ButtonMessage(buttons[1]) ELSE FinalText(text)

\* ------------------------------------------------------------ delivery
\* options.parse_mode of a call, and how the platform answers a send: it
\* accepts it, rejects it with "can't parse entities", or fails otherwise.
ParseModes == {"Markdown", "HTML", "none"}
SendResults == {"ok", "parse", "other"}
SendFns == {"safeSendMessage", "safeReply"}

\* One bot.api.sendMessage / ctx.reply of an execution, or one backoff wait:
\* the attempt it belongs to, whether it is the send of the loop or a send of
\* the catch, the parse_mode and the text it carries, and the answer.
SendEntry(attempt, role, fmt, text, result) ==
  [attempt |-> attempt, role |-> role, fmt |-> fmt, text |-> text,
   result |-> result]
Wait(attempt) == SendEntry(attempt, "wait", "", "", "")

\* A safeSendMessage or safeReply execution: where it is, its
\* options.parse_mode, the attempt of the loop, the error of the send of this
\* attempt, and what it has sent and waited for so far.
IdleSend == [pc |-> "idle", fn |-> "", mode |-> "", attempt |-> 0,
             error |-> "", sends |-> <<>>]

\* Mutant: every rejection is answered with the fallback formats.
isParseError_Always(error) == TRUE

\* error.description?.includes("can't parse entities")
isParseError(error) == error = "parse"

\* Mutant: the loop has no last attempt.
isLastAttempt_Never(attempt) == FALSE

\* attempt === maxRetries
isLastAttempt(attempt) == attempt = maxRetries

\* ------------------------------------------------------------ remote client
\* A CursorOfficialApi.request execution: where it is, whether its timeout
\* timer is scheduled, whether the timer has aborted the fetch, the status the
\* service answered with, whether it returned a value or rejected and why,
\* and whether an answer came in after the abort.
ReqProcs == {"r1", "r2"}
Statuses == {200, 204, 500}
IdleRequest == [pc |-> "idle", timer |-> FALSE, aborted |-> FALSE, status |-> 0,
                outcome |-> "none", cause |-> "", late |-> FALSE]
\* The module state of cursor-official-api.ts for the two cached endpoints
\* (repoCache / modelsCache: 0 is null, else the request whose answer it is;
\* repoCacheAt / modelsCacheAt; repoInFlight / modelsInFlight: 0 is null, else
\* the request), the requests sent to the service and the calls made.
Endpoints == {"/v0/repositories", "/v0/models"}
Instances == {1, 2}
ttlOf(endpoint) ==
  IF endpoint = "/v0/repositories" THEN repositoriesCacheTtlMs
  ELSE modelsCacheTtlMs

IdleLists == [cache |-> [e \in Endpoints |-> 0],
              cacheAt |-> [e \in Endpoints |-> 0],
              inFlight |-> [e \in Endpoints |-> 0],
              requests |-> <<>>, calls |-> 0,
              call |-> [endpoint |-> "", inst |-> 0, at |-> 0,
                        kind |-> "", request |-> 0]]

\* Mutant: the cache is still used at the age of the TTL.
isFresh_Inclusive(cache, t, cacheAt, ttl) == cache # 0 /\ t - cacheAt <= ttl

\* repoCache && now - repoCacheAt < this.repositoriesCacheTtlMs
isFresh(cache, t, cacheAt, ttl) == cache # 0 /\ t - cacheAt < ttl

\* Mutant: a call does not look at the pending request.
pendingRequest_None(inFlight) == 0

\* if (repoInFlight) return repoInFlight
pendingRequest(inFlight) == inFlight

\* ------------------------------------------------------------ handlers
\* A processUserMessage execution under bot.on('message:text'): which turn it
\* is, where it is, its (user, chat) and text, the typing intervals it has
\* scheduled and how often they fired, the store operations that failed in
\* it, what agent.processMessage returned and what the user was sent.
ErrorReply == [kind |-> "handler-error", text |-> "Error: ...", buttons |-> ""]
\* Mutant: every photo goes to processUserMessage.
hasCaption_Always(caption) == TRUE

\* const caption = ctx.message.caption || ''; if (caption) ...
hasCaption(caption) == caption # ""

\* The reply to a photo without caption; the handler states the total.
ReceivedReply ==
  [kind |-> "received", text |-> "Photo received and saved to cache",
   buttons |-> ""]
IdleHandler == [id |-> 0, pc |-> "idle", key |-> <<0, 0>>, message |-> "",
                timers |-> {}, ticks |-> 0, failed |-> {},
                response |-> NoReturn, reply |-> NoReturn, total |-> 0]

\* A row of the messages table (saveMessage).
Message(userId, chatId, text, response) ==
  [user_id |-> userId, chat_id |-> chatId, text |-> text, response |-> response]

\* Mutant: the interval is cleared after the call, not in a finally.
clearInterval_OnReturn(timers, id, threw) ==
  IF threw THEN timers ELSE timers \ {id}

\* try { response = await agent.processMessage(...) } finally
\* { clearInterval(typingInterval) }
clearInterval(timers, id, threw) == timers \ {id}
\* process.env.ALLOWED_USERS: unset, empty, or a list of ids of users and
\* chats.
AllowedUsersValues ==
  { Unset,
    EmptyString,
    EnvString(<<Raw("1", FALSE)>>),
    EnvString(<<Raw("2", TRUE), Raw("10", FALSE)>>),
    EnvString(<<Raw("", TRUE)>>) }

\* isUserAllowed(id): true without a list, else whether the trimmed items of
\* the list include id.toString().
isUserAllowed(allowed, id) ==
  IF ~allowed.set \/ allowed = EmptyString THEN TRUE
  ELSE \E i \in 1..Len(allowed.items) : allowed.items[i].url = ToString(id)

\* Mutant: the chat and the sender must both be allowed.
isDenied_Either(allowed, from, chat) ==
  ~isUserAllowed(allowed, chat) \/ ~isUserAllowed(allowed, from)

\* !isUserAllowed(ctx.chat.id) && !isUserAllowed(ctx.from.id)
isDenied(allowed, from, chat) ==
  ~isUserAllowed(allowed, chat) /\ ~isUserAllowed(allowed, from)

\* An update: its sender and its chat (0: the update has none), and what the
\* middleware did with it.
Update(from, chat, outcome) == [from |-> from, chat |-> chat, outcome |-> outcome]
Senders == {0, 1, 2}
Chats == {0, 1, 10, 20}

\* The access middleware: ALLOWED_USERS, the ids in the users and the chats
\* table, the access-denied replies sent and the last update.
IdleAccess == [allowed |-> Unset, users |-> {}, chats |-> {}, denials |-> <<>>,
               upd |-> Update(0, 0, "none")]
\* Mutant: the tasks of the user in any chat.
isCallers_AnyChat(row, userId, chatId) == row.user_id = userId

\* t.user_id === context.userId && t.chat_id === context.chatId
isCallers(row, userId, chatId) == row.user_id = userId /\ row.chat_id = chatId

\* tasks.filter(...) over db.getActiveTasks(), as in the getActiveTasks tool,
\* the tasks command and processMessage.
userTasks(rows, userId, chatId) ==
  SelectSeq(getActiveTasks(rows), LAMBDA t : isCallers(t.row, userId, chatId))

\* What each of the three shows of a task: the tool the row id, composer id,
\* repository, description and status; the command the description, status,
\* repository and composer id; the system prompt the first 8 characters of
\* the composer id (all of it, for the ids of the model), the repository, the
\* status and the description, under the number of tasks.
viewOf(op, rows, userId, chatId) ==
  LET found == userTasks(rows, userId, chatId)
      line(t) ==
        [id |-> IF op = "getActiveTasks" THEN t.id ELSE 0,
         composerId |-> t.row.composer_id, repoUrl |-> t.row.repo_url,
         description |-> t.row.task_description, status |-> t.row.status]
  IN  [count |-> Len(found), lines |-> [k \in 1..Len(found) |-> line(found[k])]]

ViewOps == {"getActiveTasks", "tasks", "systemContext"}
ViewChats == {10, 20}
NoView == [op |-> "none", user |-> 0, chat |-> 0,
           result |-> [count |-> 0, lines |-> <<>>]]

\* What the database file and the service hold when the bot starts.
EmptyStore == [agents |-> <<>>, tasks |-> <<>>, log |-> <<>>]

InitEnv(envs, stores, alloweds) ==
  /\ now = 0
  /\ files = [key \in Keys |-> Absent]
  /\ nextImg = 0
  /\ env \in envs
  /\ st = [p \in StartProcs |-> Idle]
  /\ nStarts = 0
  /\ posts = 0
  /\ \E store \in stores :
       /\ agents = store.agents
       /\ tasks = store.tasks
       /\ log = store.log
  /\ ev = NoEv
  /\ chain = [key \in Keys |-> <<>>]
  /\ chainOk = [key \in Keys |-> FALSE]
  /\ lastAppend = [key \in Keys |-> 0]
  /\ dead = {}
  /\ mon = [m \in MonProcs |-> IdleMon]
  /\ tool = [p \in ToolProcs |-> IdleTool]
  /\ cycles = 0
  /\ calls = 0
  /\ sent = [id \in 1..Len(tasks) |-> <<>>]
  /\ gh = [id \in 1..Len(tasks) |-> NoGh]
  /\ mev = NoMev
  /\ steps = <<>>
  /\ turn = [t \in TurnProcs |-> IdleTurn]
  /\ currentStepNumber = [t \in TurnProcs |-> 0]
  /\ nTurns = 0
  /\ snd = IdleSend
  /\ req = [r \in ReqProcs |-> IdleRequest]
  /\ lst = IdleLists
  /\ hnd = [t \in TurnProcs |-> IdleHandler]
  /\ msgs = <<>>
  /\ \E allowed \in alloweds : acc = [IdleAccess EXCEPT !.allowed = allowed]
  /\ shown = NoView

InitStore(envs, stores) == InitEnv(envs, stores, {Unset})

InitWith(envs) == InitStore(envs, {EmptyStore})

\* A conversation kept from earlier runs of the bot: one message of each user.
StoredLog ==
  <<ConversationMessage(1, 10, "user", "hello", 0, 0),
    ConversationMessage(2, 10, "user", "hello", 0, 0)>>

\* A conversation of chat 10 with user 1 kept from earlier runs: none, short,
\* just below and just above the number of messages processMessage asks for.
OldMessage == CoreMessage("user", <<TextPart("old")>>)

AgentStores ==
  { [EmptyStore EXCEPT
       !.log = [k \in 1..n |-> ConversationMessage(1, 10, "user", OldMessage, 0, 0)]] :
      n \in {0, 1, HISTORY_LIMIT - 1, HISTORY_LIMIT + 1} }

\* A tasks table with rows of several users and chats, kept from earlier runs.
ViewStores ==
  UNION {
    { [agents |-> [id \in 1..n |-> status[id]],
       tasks |-> [id \in 1..n |->
                    TaskRow(user[id], chat[id], id, RepoA, Description, status[id])],
       log |-> <<>>] :
        user \in [1..n -> UserIds], chat \in [1..n -> ViewChats],
        status \in [1..n -> {"RUNNING", "FINISHED", "CANCELLED"}] } :
      n \in 0..MaxRows }

\* A tasks table kept from earlier runs of the bot, with the agents of its
\* rows at the service: row id and agent id 1..n, all of chat 10.
StoredRow(id, status) == TaskRow(1, 10, id, RepoA, Description, status)

CycleStores ==
  UNION {
    { [agents |-> [id \in 1..n |-> remote[id]],
       tasks |-> [id \in 1..n |-> StoredRow(id, stored[id])],
       log |-> <<>>] :
        remote \in [1..n -> {"RUNNING", "FINISHED"}],
        stored \in [1..n -> {"RUNNING", "CANCELLED"}] } : n \in 0..MaxRows }

Init == InitWith({Unset})

\* ---------------------------------------------------------------- actions
Tick ==
  /\ now < MaxTime
  /\ now' = now + 1
  /\ ev' = NoEv
  /\ UNCHANGED <<files, nextImg, chain, chainOk, lastAppend, dead,
                 startVars, taskVars, monVars, agentVars, botVars>>

\* setInterval(cleanupImageCache, 60000)
cleanupImageCache ==
  /\ files' = sweepFiles(files, now)
  /\ ev' = [Ev("sweep", <<0, 0>>, "none") EXCEPT
              !.existed = \E key \in Keys : files[key].exists,
              !.expired = \E key \in Keys :
                 files[key].exists /\ now - files[key].mtime > CACHE_TTL]
  /\ dead' = dead \cup UNION {Range(files[key].images) :
                              key \in {k \in Keys : files'[k] # files[k]}}
  /\ UNCHANGED <<now, nextImg, chain, chainOk, lastAppend, startVars, taskVars, monVars, agentVars, botVars>>

\* The chain of a key is forgotten once it is disturbed.
Forget(f, key) == [f EXCEPT ![key] = 0]

\* bot.on('message:photo'): the group is read, the image appended and the
\* group written.
PhotoCache(userId, chatId) ==
  LET key == getCacheKey(userId, chatId)
      cursorImage == nextImg + 1
      existingImages == getImagesFromCache(files, now, userId, chatId)
      allImages == Append(existingImages.images, cursorImage)
      expired == files[key].exists /\ now - files[key].mtime > CACHE_TTL
      fresh == ~files[key].exists
      continues == chainOk[key] /\ now - lastAppend[key] <= CACHE_TTL
  IN  /\ nextImg < MaxPhotos
      /\ nextImg' = cursorImage
      /\ files' = saveImagesToCache(existingImages.files, now, userId, chatId,
                                    allImages)
      /\ ev' = EvFile("photo", key, "none", files[key], now)
      /\ dead' = IF expired THEN dead \cup Range(files[key].images) ELSE dead
      /\ chainOk' = [chainOk EXCEPT ![key] = fresh \/ continues]
      /\ chain' = [chain EXCEPT ![key] =
                     IF fresh THEN <<cursorImage>>
                     ELSE IF continues THEN Append(chain[key], cursorImage)
                     ELSE <<>>]
      /\ lastAppend' = [lastAppend EXCEPT ![key] =
                          IF fresh \/ continues THEN now ELSE 0]
      /\ UNCHANGED <<now, startVars, taskVars, monVars>>

\* bot.on('message:photo'): the cache part of the handler.
PhotoMessage(userId, chatId) ==
  /\ PhotoCache(userId, chatId)
  /\ UNCHANGED <<agentVars, botVars>>

Disturb(key) ==
  /\ chainOk' = [chainOk EXCEPT ![key] = FALSE]
  /\ chain' = [chain EXCEPT ![key] = <<>>]
  /\ lastAppend' = Forget(lastAppend, key)

\* startTask.execute up to the call of cursorApi.createAgent.
stBegin(p, userId, chatId, repoUrl, taskDescription) ==
  LET key == getCacheKey(userId, chatId)
      allowedRepos == allowedReposOf(env)
      images == getImagesFromCache(files, now, userId, chatId)
  IN  /\ st[p].pc \in {"idle", "done"}
      /\ nStarts < MaxStarts
      /\ nStarts' = nStarts + 1
      /\ ev' = EvFile("start", key, p, files[key], now)
      /\ IF Len(allowedRepos) > 0 /\ repoUrl \notin Range(allowedRepos)
           THEN /\ st' = [st EXCEPT ![p] =
                          Done(key, repoUrl, NotAllowed(allowedRepos))]
                /\ UNCHANGED <<files, posts, chain, chainOk, lastAppend, agentVars, botVars>>
           ELSE /\ files' = images.files
                /\ posts' = posts + 1
                /\ st' = [st EXCEPT ![p] =
                     [Idle EXCEPT
                        !.pc = "create", !.key = key, !.repo = repoUrl,
                        !.desc = taskDescription,
                        !.body = createAgentBody(taskDescription,
                                    startTaskImages(images.images), repoUrl)]]
                /\ Disturb(key)
      /\ dead' = IF files' # files THEN dead \cup Range(files[key].images)
                 ELSE dead
      /\ UNCHANGED <<now, nextImg, env, taskVars, monVars, agentVars, botVars>>

\* POST /v0/agents answered 2xx: the agent exists and its summary is returned.
stCreateOk(p, status) ==
  /\ st[p].pc = "create"
  /\ agents' = Append(agents, status)
  /\ st' = [st EXCEPT ![p].pc = "insert", ![p].remoteId = Len(agents) + 1,
                      ![p].status = status]
  /\ ev' = NoEv
  /\ UNCHANGED <<cacheVars, env, nStarts, posts, tasks, gh, monVars, agentVars, botVars>>

\* Mutant: the group is cleared whether or not the task was created.
stCreateFail_Clears(p) ==
  /\ st[p].pc = "create"
  /\ st' = [st EXCEPT ![p] = Done(st[p].key, st[p].repo, Failed)]
  /\ files' = clearImagesFromCache(files, st[p].key[1], st[p].key[2])
  /\ ev' = NoEv
  /\ UNCHANGED <<now, nextImg, chain, chainOk, lastAppend, dead, env, nStarts,
                 posts, taskVars, monVars, agentVars, botVars>>

\* POST /v0/agents answered non-2xx or the network failed: request() throws.
stCreateFail(p) ==
  /\ st[p].pc = "create"
  /\ st' = [st EXCEPT ![p] = Done(st[p].key, st[p].repo, Failed)]
  /\ ev' = NoEv
  /\ UNCHANGED <<cacheVars, env, nStarts, posts, taskVars, monVars, agentVars, botVars>>

\* The service created the agent but no answer arrived within timeoutMs.
stCreateTimeout(p, status) ==
  /\ st[p].pc = "create"
  /\ agents' = Append(agents, status)
  /\ st' = [st EXCEPT ![p] = Done(st[p].key, st[p].repo, Failed)]
  /\ ev' = NoEv
  /\ UNCHANGED <<cacheVars, env, nStarts, posts, tasks, gh, monVars, agentVars, botVars>>

\* context.db.createTask succeeded.
stInsertOk(p) ==
  /\ st[p].pc = "insert"
  /\ tasks' = Append(tasks, TaskRow(st[p].key[1], st[p].key[2], st[p].remoteId,
                                    st[p].repo, st[p].desc, st[p].status))
  /\ st' = [st EXCEPT ![p].pc = "clear", ![p].taskId = Len(tasks) + 1]
  /\ ev' = NoEv
  /\ gh' = Append(gh, NoGh)
  /\ sent' = Append(sent, <<>>)
  /\ UNCHANGED <<cacheVars, env, nStarts, posts, agents, mon, tool, cycles, calls,
                 mev, agentVars, botVars>>

\* context.db.createTask threw.
stInsertFail(p) ==
  /\ st[p].pc = "insert"
  /\ st' = [st EXCEPT ![p] = Done(st[p].key, st[p].repo, Failed)]
  /\ ev' = NoEv
  /\ UNCHANGED <<cacheVars, env, nStarts, posts, taskVars, monVars, agentVars, botVars>>

\* clearImagesFromCache and the success payload.
stClear(p) ==
  LET key == st[p].key
  IN  /\ st[p].pc = "clear"
      /\ files' = clearImagesFromCache(files, key[1], key[2])
      /\ st' = [st EXCEPT ![p] =
                  Done(key, st[p].repo, Success(st[p].remoteId, st[p].taskId,
                                    Len(st[p].body.images.list)))]
      /\ ev' = EvFile("clear", key, p, files[key], now)
      /\ Disturb(key)
      /\ UNCHANGED <<now, nextImg, dead, env, nStarts, posts, taskVars,
                     monVars, agentVars, botVars>>

\* The service moves an agent on: CREATING, RUNNING, then a final status.
RemoteAdvance(composerId, status) ==
  /\ composerId \in 1..Len(agents)
  /\ \/ agents[composerId] = "CREATING" /\ status = "RUNNING"
     \/ agents[composerId] = "RUNNING" /\ status \in {"FINISHED", "ERROR", "EXPIRED"}
  /\ agents' = [agents EXCEPT ![composerId] = status]
  /\ gh' = [id \in 1..Len(gh) |->
              IF /\ status = "FINISHED"
                 /\ tasks[id].composer_id = composerId
                 /\ tasks[id].status = "RUNNING"
                 /\ gh[id].obs = "RUNNING"
                 /\ \A m \in MonProcs : mon[m].pc = "idle"
                THEN [gh[id] EXCEPT !.armed = TRUE] ELSE gh[id]]
  /\ mev' = NoMev
  /\ UNCHANGED <<cacheVars, startVars, tasks, mon, tool, cycles, calls, sent, ev, agentVars, botVars>>

\* The monitor is done with the task it is at: it goes on to the next row of
\* its list, asking the service for it, or the cycle ends.
monGoOn(m) ==
  IF mon[m].i < Len(mon[m].tasks)
    THEN [mon[m] EXCEPT !.pc = "wait", !.i = @ + 1, !.resp = "", !.msg = NoMessage,
                        !.changed = FALSE]
    ELSE IdleMon

\* The cycle observed status for row id and delivered n messages for it.
Observed(id, status, n) ==
  [gh EXCEPT ![id] = [armed |-> gh[id].armed, obs |-> status, nsent |-> n,
                      pair |-> IF gh[id].obs = status THEN gh[id].nsent + n
                               ELSE n]]

\* The cycle got no status for row id.
Unobserved(id) == [gh EXCEPT ![id] = [@ EXCEPT !.obs = "", !.nsent = 0, !.pair = 0]]

\* setInterval(monitorTasks, 60000): a cycle reads the active tasks and asks
\* the service for the first.
monStart(m) ==
  LET list == getActiveTasks(tasks)
      polled == {list[j].id : j \in 1..Len(list)}
  IN  /\ mon[m].pc = "idle"
      /\ cycles < MaxCycles
      /\ cycles' = cycles + 1
      /\ mon' = [mon EXCEPT ![m] =
                   IF Len(list) = 0 THEN IdleMon
                   ELSE [IdleMon EXCEPT !.pc = "wait", !.tasks = list, !.i = 1]]
      /\ gh' = [id \in 1..Len(gh) |->
                  IF id \in polled THEN gh[id]
                  ELSE [gh[id] EXCEPT !.obs = "", !.nsent = 0, !.pair = 0]]
      /\ mev' = NoMev
      /\ UNCHANGED <<cacheVars, startVars, agents, tasks, tool, calls, sent, ev, agentVars, botVars>>

\* The service answers the monitor's GET /v0/agents/{id}.
monRemote(m) ==
  /\ mon[m].pc = "wait"
  /\ mon' = [mon EXCEPT ![m].pc = "resp",
               ![m].resp = agentStatusOf(agents,
                              mon[m].tasks[mon[m].i].row.composer_id)]
  /\ mev' = NoMev
  /\ UNCHANGED <<cacheVars, startVars, taskVars, tool, cycles, calls, sent, ev, agentVars, botVars>>

\* Mutant: a failure with one task ends the cycle.
monFail_Abort(m) ==
  /\ \/ mon[m].pc = "wait"
     \/ mon[m].pc = "resp"
  /\ mon' = [mon EXCEPT ![m] = IdleMon]
  /\ gh' = Unobserved(mon[m].tasks[mon[m].i].id)
  /\ mev' = [op |-> "failed", task |-> mon[m].tasks[mon[m].i].id, status |-> ""]
  /\ UNCHANGED <<cacheVars, startVars, agents, tasks, tool, cycles, calls, sent, ev,
                 agentVars, botVars>>

\* getAgent threw (non-2xx, network failure, timeout): logged, next task.
monFail(m) ==
  /\ \/ mon[m].pc = "wait"
     \/ mon[m].pc = "resp"
  /\ mon' = [mon EXCEPT ![m] = monGoOn(m)]
  /\ gh' = Unobserved(mon[m].tasks[mon[m].i].id)
  /\ mev' = [op |-> "failed", task |-> mon[m].tasks[mon[m].i].id, status |-> ""]
  /\ UNCHANGED <<cacheVars, startVars, agents, tasks, tool, cycles, calls, sent, ev, agentVars, botVars>>

\* getAgent returned: the status is compared with the one of the row as read
\* at the start of the cycle; if it differs it is stored and a message sent.
monReceive(m) ==
  LET task == mon[m].tasks[mon[m].i]
      oldStatus == task.row.status
      newStatus == storedStatus(mon[m].resp)
  IN  /\ mon[m].pc = "resp"
      /\ mon[m].resp # "fail"
      /\ IF oldStatus # newStatus
           THEN /\ tasks' = updateTask(tasks, task.id, newStatus)
                /\ mon' = [mon EXCEPT ![m].pc = "send",
                             ![m].msg = Notification(task.id, task.row, newStatus),
                             ![m].changed = tasks[task.id].status # newStatus]
                /\ mev' = NoMev
                /\ UNCHANGED gh
           ELSE /\ mon' = [mon EXCEPT ![m] = monGoOn(m)]
                /\ gh' = Observed(task.id, mon[m].resp, 0)
                /\ mev' = [op |-> "handled", task |-> task.id,
                           status |-> mon[m].resp]
                /\ UNCHANGED tasks
      /\ UNCHANGED <<cacheVars, startVars, agents, tool, cycles, calls, sent, ev, agentVars, botVars>>

\* safeSendMessage delivered the message.
monSendOk(m) ==
  LET task == mon[m].tasks[mon[m].i]
  IN  /\ mon[m].pc = "send"
      /\ sent' = [sent EXCEPT ![task.id] = Append(@, mon[m].msg)]
      /\ mon' = [mon EXCEPT ![m] = monGoOn(m)]
      /\ gh' = Observed(task.id, mon[m].resp, 1)
      /\ mev' = [op |-> "handled", task |-> task.id, status |-> mon[m].resp]
      /\ UNCHANGED <<cacheVars, startVars, agents, tasks, tool, cycles, calls, ev, agentVars, botVars>>

\* safeSendMessage threw after its last attempt: logged, next task.
monSendFail(m) ==
  LET task == mon[m].tasks[mon[m].i]
  IN  /\ mon[m].pc = "send"
      /\ mon' = [mon EXCEPT ![m] = monGoOn(m)]
      /\ gh' = Observed(task.id, mon[m].resp, 0)
      /\ mev' = [op |-> "undelivered", task |-> task.id, status |-> mon[m].resp]
      /\ UNCHANGED <<cacheVars, startVars, agents, tasks, tool, cycles, calls,
                     sent, ev, agentVars, botVars>>

\* getTaskStatus.execute and stopTask.execute: the request is sent.
toolBeginAs(p, op, userId, chatId, composerId) ==
  /\ tool[p].pc = "idle"
  /\ calls < MaxCalls
  /\ calls' = calls + 1
  /\ tool' = [tool EXCEPT ![p] = [IdleTool EXCEPT !.pc = "wait", !.op = op,
                                                  !.composerId = composerId,
                                                  !.caller = <<userId, chatId>>]]
  /\ mev' = NoMev
  /\ UNCHANGED <<cacheVars, startVars, taskVars, mon, cycles, sent, ev, agentVars, botVars>>

\* The tools called in a turn of user 1 in chat 10.
toolBegin(p, op, composerId) == toolBeginAs(p, op, 1, 10, composerId)

getTaskStatusBegin(p, composerId) == toolBegin(p, "getTaskStatus", composerId)

stopTaskBegin(p, composerId) == toolBegin(p, "stopTask", composerId)

\* The service answers getTaskStatus's GET /v0/agents/{id}.
getTaskStatusRemote(p) ==
  /\ tool[p].pc = "wait" /\ tool[p].op = "getTaskStatus"
  /\ tool' = [tool EXCEPT ![p].pc = "resp",
                ![p].resp = agentStatusOf(agents, tool[p].composerId)]
  /\ mev' = NoMev
  /\ UNCHANGED <<cacheVars, startVars, taskVars, mon, cycles, calls, sent, ev, agentVars, botVars>>

\* The service handles stopTask's DELETE /v0/agents/{id}.
stopTaskRemote(p) ==
  LET found == agentStatusOf(agents, tool[p].composerId) # "fail"
  IN  /\ tool[p].pc = "wait" /\ tool[p].op = "stopTask"
      /\ agents' = IF found THEN [agents EXCEPT ![tool[p].composerId] = "DELETED"]
                   ELSE agents
      /\ tool' = [tool EXCEPT ![p].pc = "resp",
                    ![p].resp = IF found THEN "deleted" ELSE "fail"]
      /\ mev' = NoMev
      /\ UNCHANGED <<cacheVars, startVars, tasks, gh, mon, cycles, calls, sent, ev, agentVars, botVars>>

\* What a tool returned: the error payload, or its result after it wrote
\* status to the row (0: there is no row of that composer id).
ToolError == [op |-> "tool-error", task |-> 0, status |-> ""]
ToolSuccess(row, status) == [op |-> "tool-success", task |-> row, status |-> status]

\* Mutant: stopTask marks the row whether or not the delete succeeded.
toolFail_Cancels(p) ==
  LET task == getTaskByComposerId(tasks, tool[p].composerId)
  IN  /\ \/ tool[p].pc = "wait"
         \/ tool[p].pc = "resp"
      /\ tasks' = IF task # 0 /\ tool[p].op = "stopTask"
                    THEN updateTask(tasks, task, "CANCELLED") ELSE tasks
      /\ tool' = [tool EXCEPT ![p] = IdleTool]
      /\ mev' = ToolError
      /\ UNCHANGED <<cacheVars, startVars, agents, gh, mon, cycles, calls, sent, ev,
                     agentVars, botVars>>

\* The request threw (non-2xx, network failure, timeout): an error payload.
toolFail(p) ==
  /\ \/ tool[p].pc = "wait"
     \/ tool[p].pc = "resp"
  /\ tool' = [tool EXCEPT ![p] = IdleTool]
  /\ mev' = ToolError
  /\ UNCHANGED <<cacheVars, startVars, taskVars, mon, cycles, calls, sent, ev, agentVars, botVars>>

\* getAgent returned to getTaskStatus: the status is stored in the row of
\* that composer id, if there is one.
getTaskStatusReceive(p) ==
  LET task == getTaskByComposerId(tasks, tool[p].composerId)
  IN  /\ tool[p].pc = "resp" /\ tool[p].op = "getTaskStatus"
      /\ tool[p].resp # "fail"
      /\ tasks' = IF task # 0 THEN updateTask(tasks, task, storedStatus(tool[p].resp))
                  ELSE tasks
      /\ tool' = [tool EXCEPT ![p] = IdleTool]
      /\ mev' = ToolSuccess(task, tool[p].resp)
      /\ UNCHANGED <<cacheVars, startVars, agents, gh, mon, cycles, calls, sent, ev, agentVars, botVars>>

\* deleteAgent returned to stopTask: CANCELLED is stored in the row of that
\* composer id, if there is one.
stopTaskReceive(p) ==
  LET task == getTaskByComposerId(tasks, tool[p].composerId)
  IN  /\ tool[p].pc = "resp" /\ tool[p].op = "stopTask"
      /\ tool[p].resp # "fail"
      /\ tasks' = IF task # 0 THEN updateTask(tasks, task, "CANCELLED") ELSE tasks
      /\ tool' = [tool EXCEPT ![p] = IdleTool]
      /\ mev' = ToolSuccess(task, "CANCELLED")
      /\ UNCHANGED <<cacheVars, startVars, agents, gh, mon, cycles, calls, sent, ev, agentVars, botVars>>

\* processMessage up to the call of generateText: the step number is reset,
\* the user message is stored and the history read.
pmBegin(t, userId, chatId, message) ==
  LET userMessage == CoreMessage("user", <<TextPart(message)>>)
      stored == saveConversationHistory(log, userId, chatId, <<userMessage>>, 0, now)
  IN  /\ turn[t].pc \in {"idle", "done"}
      /\ nTurns < MaxTurns
      /\ nTurns' = nTurns + 1
      /\ currentStepNumber' = [currentStepNumber EXCEPT ![agentOf(t)] = 0]
      /\ log' = stored
      /\ turn' = [turn EXCEPT ![t] =
                    [IdleTurn EXCEPT !.id = nTurns + 1, !.pc = "llm",
                       !.key = <<userId, chatId>>, !.message = message,
                       !.history = getConversationHistory(stored, userId, chatId,
                                                          HISTORY_LIMIT)]]
      /\ UNCHANGED <<cacheVars, startVars, taskVars, monVars, ev, botVars, steps>>

\* onStepFinish: the step number goes up by one and the step is stored with it.
onStepFinish(t) ==
  LET number == currentStepNumber[agentOf(t)] + 1
  IN  /\ currentStepNumber' = [currentStepNumber EXCEPT ![agentOf(t)] = number]
      /\ steps' = Append(steps, ConversationStep(turn[t].key[1], turn[t].key[2],
                                                 number, turn[t].id))

\* A step of generateText in which the LLM asks for tools: the tools run; if
\* one throws, generateText rejects and processMessage returns the error
\* string; else the step is complete.
llmToolStep(t, toolCalls) ==
  LET results == [k \in 1..Len(toolCalls) |-> execute(toolCalls[k])]
      request == CoreMessage("assistant", <<Part("tool-call", "", "")>>)
      answer == CoreMessage("tool", results)
  IN  /\ turn[t].pc = "llm"
      /\ IF \E k \in 1..Len(results) : results[k].type = "thrown"
           THEN /\ turn' = [turn EXCEPT ![t].pc = "done", ![t].ret = ErrorString,
                                        ![t].cause = "tool"]
                /\ UNCHANGED <<currentStepNumber, steps>>
           ELSE /\ turn' = [turn EXCEPT
                      ![t].stepCount = @ + 1,
                      ![t].response = @ \o <<request, answer>>,
                      ![t].text = "",
                      ![t].pc = IF continueLoop(turn[t].stepCount + 1)
                                  THEN "llm" ELSE "finish"]
                /\ onStepFinish(t)
      /\ UNCHANGED <<cacheVars, startVars, taskVars, monVars, ev, botVars, log, nTurns>>

\* A step of generateText in which the LLM answers with a text: the last step.
llmText(t, text) ==
  /\ turn[t].pc = "llm"
  /\ turn' = [turn EXCEPT
        ![t].stepCount = @ + 1,
        ![t].response = Append(@, CoreMessage("assistant", <<TextPart(text)>>)),
        ![t].text = text,
        ![t].pc = "finish"]
  /\ onStepFinish(t)
  /\ UNCHANGED <<cacheVars, startVars, taskVars, monVars, ev, botVars, log, nTurns>>

\* Mutant: the catch stores the response messages received so far.
llmFail_SavesPartial(t) ==
  /\ turn[t].pc = "llm"
  /\ turn' = [turn EXCEPT ![t].pc = "done", ![t].ret = ErrorString,
                          ![t].cause = "llm"]
  /\ log' = saveConversationHistory(log, turn[t].key[1], turn[t].key[2],
                                    turn[t].response,
                                    currentStepNumber[agentOf(t)], now)
  /\ UNCHANGED <<cacheVars, startVars, taskVars, monVars, ev, botVars, steps,
                 currentStepNumber, nTurns>>

\* The LLM call fails: the catch of processMessage returns the error string.
llmFail(t) ==
  /\ turn[t].pc = "llm"
  /\ turn' = [turn EXCEPT ![t].pc = "done", ![t].ret = ErrorString,
                          ![t].cause = "llm"]
  /\ UNCHANGED <<cacheVars, startVars, taskVars, monVars, ev, botVars, log, steps,
                 currentStepNumber, nTurns>>

\* generateText returned: the response messages are stored, then the button
\* message or the text is returned.
pmFinish(t) ==
  /\ turn[t].pc = "finish"
  /\ log' = saveConversationHistory(log, turn[t].key[1], turn[t].key[2],
                                    turn[t].response,
                                    currentStepNumber[agentOf(t)], now)
  /\ turn' = [turn EXCEPT ![t].pc = "done",
                          ![t].ret = returnValue(turn[t].response, turn[t].text)]
  /\ UNCHANGED <<cacheVars, startVars, taskVars, monVars, ev, botVars, steps,
                 currentStepNumber, nTurns>>

\* The rows of a table that are not of (userId, chatId).
deleteWhere(rows, userId, chatId) ==
  SelectSeq(rows, LAMBDA r : ~(r.user_id = userId /\ r.chat_id = chatId))

\* Mutant: /clear also wipes the descriptions of the tasks of that chat.
clearHistory_Tasks(userId, chatId) ==
  /\ log' = deleteWhere(log, userId, chatId)
  /\ steps' = deleteWhere(steps, userId, chatId)
  /\ tasks' = [id \in 1..Len(tasks) |->
                 IF tasks[id].user_id = userId /\ tasks[id].chat_id = chatId
                   THEN [tasks[id] EXCEPT !.task_description = ""]
                   ELSE tasks[id]]
  /\ UNCHANGED <<cacheVars, startVars, agents, gh, monVars, ev, botVars, turn,
                 currentStepNumber, nTurns>>

\* The /clear command, Database.clearHistory: the conversation messages and
\* steps of (userId, chatId) are deleted.
clearHistory(userId, chatId) ==
  /\ log' = deleteWhere(log, userId, chatId)
  /\ steps' = deleteWhere(steps, userId, chatId)
  /\ UNCHANGED <<cacheVars, startVars, taskVars, monVars, ev, botVars, turn,
                 currentStepNumber, nTurns>>

\* safeSendMessage / safeReply is called: attempt 1 sends the text as given.
sendBegin(fn, mode) ==
  /\ snd.pc = "idle"
  /\ snd' = [IdleSend EXCEPT !.pc = "primary", !.fn = fn, !.mode = mode,
                             !.attempt = 1]
  /\ UNCHANGED <<modelVars, req, lst, hnd, msgs, acc, shown>>

\* The end of the catch block: throw at the last attempt, else wait.
afterFallbacks(s) ==
  IF isLastAttempt(s.attempt) THEN [s EXCEPT !.pc = "thrown"]
  ELSE [s EXCEPT !.pc = "backoff"]

\* The platform answers the send of the loop.
sendPrimary(result) ==
  LET s == [snd EXCEPT
              !.sends = Append(@, SendEntry(snd.attempt, "primary", snd.mode,
                                            "text", result)),
              !.error = IF result = "ok" THEN "" ELSE result]
  IN  /\ snd.pc = "primary"
      /\ snd' = IF result = "ok" THEN [s EXCEPT !.pc = "returned"]
                ELSE IF isParseError(result)
                  THEN IF snd.mode = "Markdown" THEN [s EXCEPT !.pc = "html"]
                       ELSE [s EXCEPT !.pc = "plain"]
                ELSE afterFallbacks(s)
      /\ UNCHANGED <<modelVars, req, lst, hnd, msgs, acc, shown>>

\* The platform answers the HTML send.
sendHtml(result) ==
  LET s == [snd EXCEPT
              !.sends = Append(@, SendEntry(snd.attempt, "fallback", "HTML",
                                            "htmlText", result))]
  IN  /\ snd.pc = "html"
      /\ snd' = IF result = "ok" THEN [s EXCEPT !.pc = "returned"]
                ELSE [s EXCEPT !.pc = "plain"]
      /\ UNCHANGED <<modelVars, req, lst, hnd, msgs, acc, shown>>

\* The platform answers the send without parse_mode.
sendPlain(result) ==
  LET s == [snd EXCEPT
              !.sends = Append(@, SendEntry(snd.attempt, "fallback", "none",
                                            "text", result))]
  IN  /\ snd.pc = "plain"
      /\ snd' = IF result = "ok" THEN [s EXCEPT !.pc = "returned"]
                ELSE afterFallbacks(s)
      /\ UNCHANGED <<modelVars, req, lst, hnd, msgs, acc, shown>>

\* The timer of 1000 * attempt ms fires: the next attempt sends.
sendBackoff ==
  /\ snd.pc = "backoff"
  /\ snd' = [snd EXCEPT !.pc = "primary", !.attempt = @ + 1,
                        !.sends = Append(@, Wait(snd.attempt))]
  /\ UNCHANGED <<modelVars, req, lst, hnd, msgs, acc, shown>>

handlerFrame ==
  <<cacheVars, startVars, taskVars, monVars, ev, turn, currentStepNumber,
    snd, req, lst, acc, shown>>

\* bot.on('message:text') calls processUserMessage: the Agent is made and the
\* first typing action is sent.
hBegin(t, userId, chatId, message) ==
  /\ hnd[t].pc \in {"idle", "done"}
  /\ nTurns < MaxTurns
  /\ nTurns' = nTurns + 1
  /\ hnd' = [hnd EXCEPT ![t] =
               [IdleHandler EXCEPT !.id = nTurns + 1, !.pc = "typing",
                                   !.key = <<userId, chatId>>,
                                   !.message = message,
                                   !.timers = hnd[t].timers]]
  /\ UNCHANGED <<handlerFrame, log, steps, msgs>>

\* The first typing action is answered. If it failed, processUserMessage
\* throws to the catch of the handler, which sends the error text. Else the
\* interval is set and processMessage runs up to generateText: it stores the
\* user message (a failure is logged), reads the history and the tasks (a
\* failure is thrown through the finally to the catch of the handler).
hTyping(t, ok, fails) ==
  LET h == hnd[t]
      userMessage == CoreMessage("user", <<TextPart(h.message)>>)
      scheduled == h.timers \cup {h.id}
      threw == fails \cap {"getConversationHistory", "getActiveTasks"} # {}
  IN  /\ h.pc = "typing"
      /\ IF ~ok
           THEN /\ hnd' = [hnd EXCEPT ![t].pc = "replyError"]
                /\ UNCHANGED log
           ELSE /\ log' = IF "saveConversationMessage" \in fails THEN log
                          ELSE saveConversationHistory(log, h.key[1], h.key[2],
                                                       <<userMessage>>, 0, now)
                /\ hnd' = [hnd EXCEPT
                      ![t].failed = fails,
                      ![t].timers = IF threw THEN clearInterval(scheduled, h.id, TRUE)
                                    ELSE scheduled,
                      ![t].pc = IF threw THEN "replyError" ELSE "llm"]
      /\ UNCHANGED <<handlerFrame, steps, msgs, nTurns>>

\* The interval fires: a typing action is sent, its failure is logged.
hTimer(t, id) ==
  /\ id \in hnd[t].timers
  /\ hnd[t].ticks < MaxTime
  /\ hnd' = [hnd EXCEPT ![t].ticks = @ + 1]
  /\ UNCHANGED <<handlerFrame, log, steps, msgs, nTurns>>

\* A step of generateText that is not the last: onStepFinish stores the step
\* (a failure is logged).
hStep(t, number, traceFails) ==
  /\ hnd[t].pc = "llm"
  /\ steps' = IF traceFails THEN steps
              ELSE Append(steps, ConversationStep(hnd[t].key[1], hnd[t].key[2],
                                                  number, hnd[t].id))
  /\ hnd' = [hnd EXCEPT ![t].failed =
               IF traceFails THEN @ \cup {"saveConversationStep"} ELSE @]
  /\ UNCHANGED <<handlerFrame, log, msgs, nTurns>>

\* generateText returns or rejects: processMessage stores the response
\* messages (a failure is logged) and returns the text or the button message,
\* or its catch returns the error string; the interval is cleared;
\* processUserMessage stores the message with the response (a failure is
\* thrown to the catch of the handler) and sends the response.
hFinish(t, outcome, fails) ==
  LET h == hnd[t]
      response == CASE outcome = "text" -> FinalText("done")
                    [] outcome = "button" -> ButtonMessage(ButtonPayload("A"))
                    [] OTHER -> ErrorString
      answer == CoreMessage("assistant", <<TextPart("done")>>)
      threw == "saveMessage" \in fails
  IN  /\ h.pc = "llm"
      /\ outcome = "error" => "saveConversationMessage" \notin fails
      /\ log' = IF outcome = "error" \/ "saveConversationMessage" \in fails
                  THEN log
                  ELSE saveConversationHistory(log, h.key[1], h.key[2],
                                               <<answer>>, 1, now)
      /\ msgs' = IF threw THEN msgs
                 ELSE Append(msgs, Message(h.key[1], h.key[2], h.message, response))
      /\ hnd' = [hnd EXCEPT
            ![t].response = response,
            ![t].failed = @ \cup fails,
            ![t].timers = clearInterval(h.timers, h.id, FALSE),
            ![t].pc = IF threw THEN "replyError" ELSE "reply"]
      /\ UNCHANGED <<handlerFrame, steps, nTurns>>

\* safeReply with the response returns, or throws to the catch of the handler.
hReply(t, ok) ==
  /\ hnd[t].pc = "reply"
  /\ hnd' = [hnd EXCEPT
        ![t].reply = IF ok THEN hnd[t].response ELSE @,
        ![t].failed = IF ok THEN @ ELSE @ \cup {"safeReply"},
        ![t].pc = IF ok THEN "done" ELSE "replyError"]
  /\ UNCHANGED <<handlerFrame, log, steps, msgs, nTurns>>

\* bot.on('message:photo'): the typing action is sent, then the file is
\* looked up, downloaded and converted.
photoBegin(t, userId, chatId, caption) ==
  LET busy == {p \in TurnProcs : hnd[p].pc = "download"}
      captioned == {p \in busy : hnd[p].message # ""}
  IN  /\ hnd[t].pc \in {"idle", "done"}
      /\ nextImg + Cardinality(busy) < MaxPhotos
      /\ caption # "" => nTurns + Cardinality(captioned) < MaxTurns
      /\ hnd' = [hnd EXCEPT ![t] =
                   [IdleHandler EXCEPT !.pc = "download",
                                       !.key = <<userId, chatId>>,
                                       !.message = caption,
                                       !.timers = hnd[t].timers]]
      /\ UNCHANGED <<handlerFrame, log, steps, msgs, nTurns>>

\* The image is there, or one of the steps before failed and the catch sends
\* the error text. With the image the group is extended; then a caption goes
\* to processUserMessage, and without caption the 'received' reply is sent.
photoDownloaded(t, ok) ==
  LET h == hnd[t]
  IN  /\ h.pc = "download"
      /\ IF ~ok
           THEN /\ hnd' = [hnd EXCEPT ![t].pc = "replyError"]
                /\ UNCHANGED <<modelVars>>
           ELSE /\ PhotoCache(h.key[1], h.key[2])
                /\ IF hasCaption(h.message)
                     THEN /\ nTurns' = nTurns + 1
                          /\ hnd' = [hnd EXCEPT ![t].id = nTurns + 1,
                                                ![t].pc = "typing"]
                     ELSE /\ hnd' = [hnd EXCEPT
                               ![t].pc = "replyPhoto",
                               ![t].total = Len(files'[getCacheKey(h.key[1], h.key[2])].images)]
                          /\ UNCHANGED nTurns
                /\ UNCHANGED <<log, steps, turn, currentStepNumber>>
      /\ UNCHANGED <<snd, req, lst, msgs, acc, shown>>

\* safeReply with the 'received' text returns, or throws to the catch of the
\* handler.
photoReply(t, ok) ==
  /\ hnd[t].pc = "replyPhoto"
  /\ hnd' = [hnd EXCEPT ![t].reply = IF ok THEN ReceivedReply ELSE @,
                        ![t].failed = IF ok THEN @ ELSE @ \cup {"safeReply"},
                        ![t].pc = IF ok THEN "done" ELSE "replyError"]
  /\ UNCHANGED <<handlerFrame, log, steps, msgs, nTurns>>

\* safeReply with the error text of the catch returns, or throws to bot.catch,
\* which logs it.
hReplyError(t, ok) ==
  /\ hnd[t].pc = "replyError"
  /\ hnd' = [hnd EXCEPT ![t].reply = IF ok THEN ErrorReply ELSE @,
                        ![t].pc = "done"]
  /\ UNCHANGED <<handlerFrame, log, steps, msgs, nTurns>>

\* request(path): the timer is set and fetch is called.
reqBegin(r) ==
  /\ req[r].pc = "idle"
  /\ req' = [req EXCEPT ![r] = [IdleRequest EXCEPT !.pc = "fetch", !.timer = TRUE]]
  /\ UNCHANGED <<modelVars, snd, lst, hnd, msgs, acc, shown>>

\* fetch resolves with the status line and headers: the timer is cleared;
\* then the error text is read (!res.ok), undefined is returned (204) or the
\* body is read.
reqHeaders(r, status) ==
  /\ req[r].pc = "fetch"
  /\ req' = [req EXCEPT ![r] =
        IF status = 204
          THEN [@ EXCEPT !.pc = "done", !.timer = FALSE, !.status = status,
                         !.outcome = "value", !.cause = "no content"]
          ELSE [@ EXCEPT !.pc = IF status = 200 THEN "json" ELSE "text",
                         !.timer = FALSE, !.status = status]]
  /\ UNCHANGED <<modelVars, snd, lst, hnd, msgs, acc, shown>>

\* fetch rejects (network failure): the catch clears the timer and rethrows.
reqNetworkFail(r) ==
  /\ req[r].pc = "fetch"
  /\ req' = [req EXCEPT ![r] = [@ EXCEPT !.pc = "done", !.timer = FALSE,
                                         !.outcome = "rejected",
                                         !.cause = "network"]]
  /\ UNCHANGED <<modelVars, snd, lst, hnd, msgs, acc, shown>>

\* The timer fires: controller.abort() makes fetch reject; the catch
\* rethrows.
reqTimeout(r) ==
  /\ req[r].timer
  /\ req' = [req EXCEPT ![r] = [@ EXCEPT !.pc = "done", !.timer = FALSE,
                                         !.aborted = TRUE,
                                         !.outcome = "rejected",
                                         !.cause = "timeout"]]
  /\ UNCHANGED <<modelVars, snd, lst, hnd, msgs, acc, shown>>

\* res.json() resolves with the body, or rejects (the connection broke, the
\* body is not JSON) and the catch rethrows.
reqJson(r, ok) ==
  /\ req[r].pc = "json"
  /\ req' = [req EXCEPT ![r] = [@ EXCEPT !.pc = "done",
                                         !.outcome = IF ok THEN "value" ELSE "rejected",
                                         !.cause = IF ok THEN "body" ELSE "network"]]
  /\ UNCHANGED <<modelVars, snd, lst, hnd, msgs, acc, shown>>

\* res.text().catch(() => '') settles: Error('HTTP status ...') is thrown.
reqText(r) ==
  /\ req[r].pc = "text"
  /\ req' = [req EXCEPT ![r] = [@ EXCEPT !.pc = "done", !.outcome = "rejected",
                                         !.cause = "status"]]
  /\ UNCHANGED <<modelVars, snd, lst, hnd, msgs, acc, shown>>

\* The service answers a request that was aborted: nobody receives it.
reqLate(r) ==
  /\ req[r].pc = "done"
  /\ req[r].aborted
  /\ ~req[r].late
  /\ req' = [req EXCEPT ![r].late = TRUE]
  /\ UNCHANGED <<modelVars, snd, lst, hnd, msgs, acc, shown>>

\* listRepositories() / listModels() of a client instance: the cached
\* response if it is fresh, else the pending request if there is one, else a
\* new request, which becomes the pending one.
listCall(inst, e) ==
  LET fresh == isFresh(lst.cache[e], now, lst.cacheAt[e], ttlOf(e))
      pending == pendingRequest(lst.inFlight[e])
      rid == Len(lst.requests) + 1
      call(kind, id) == [endpoint |-> e, inst |-> inst, at |-> now,
                         kind |-> kind, request |-> id]
  IN  /\ lst.calls < MaxLists
      /\ lst' =
           IF fresh
             THEN [lst EXCEPT !.calls = @ + 1,
                              !.call = call("cache", lst.cache[e])]
           ELSE IF pending # 0
             THEN [lst EXCEPT !.calls = @ + 1,
                              !.call = call("joined", pending)]
           ELSE [lst EXCEPT
                   !.calls = @ + 1,
                   !.call = call("new", rid),
                   !.requests = Append(@, [endpoint |-> e, inst |-> inst,
                                           state |-> "pending"]),
                   !.inFlight[e] = rid]
      /\ UNCHANGED <<modelVars, snd, req, hnd, msgs, acc, shown>>

\* Mutant: only .then clears the pending request.
listSettle_KeepsFailed(rid, ok) ==
  LET e == lst.requests[rid].endpoint
  IN  /\ rid \in 1..Len(lst.requests)
      /\ lst.requests[rid].state = "pending"
      /\ lst' = [lst EXCEPT
            !.requests[rid].state = IF ok THEN "resolved" ELSE "rejected",
            !.cache[e] = IF ok THEN rid ELSE @,
            !.cacheAt[e] = IF ok THEN now ELSE @,
            !.inFlight[e] = IF ok THEN 0 ELSE @]
      /\ UNCHANGED <<modelVars, snd, req, hnd, msgs, acc, shown>>

\* The request settles: .then stores the response and the time, .finally
\* clears the pending request; a rejection goes to everyone awaiting it.
listSettle(rid, ok) ==
  LET e == lst.requests[rid].endpoint
  IN  /\ rid \in 1..Len(lst.requests)
      /\ lst.requests[rid].state = "pending"
      /\ lst' = [lst EXCEPT
            !.requests[rid].state = IF ok THEN "resolved" ELSE "rejected",
            !.cache[e] = IF ok THEN rid ELSE @,
            !.cacheAt[e] = IF ok THEN now ELSE @,
            !.inFlight[e] = 0]
      /\ UNCHANGED <<modelVars, snd, req, hnd, msgs, acc, shown>>

\* bot.use: an update without sender or chat is dropped; one that is denied
\* is sent the access-denied reply (safeReply may fail) and goes no further;
\* any other has its user and chat rows written and is passed on to the
\* handlers.
accessUpdate(from, chat, replyOk) ==
  /\ Len(acc.denials) < MaxCalls
  /\ acc' =
       IF from = 0 \/ chat = 0
         THEN [acc EXCEPT !.upd = Update(from, chat, "dropped")]
       ELSE IF isDenied(acc.allowed, from, chat)
         THEN [acc EXCEPT !.upd = Update(from, chat, "denied"),
                          !.denials = Append(@, [chat |-> chat, ok |-> replyOk])]
       ELSE [acc EXCEPT !.upd = Update(from, chat, "passed"),
                        !.users = @ \cup {from},
                        !.chats = @ \cup {chat}]
  /\ UNCHANGED <<modelVars, snd, req, lst, hnd, msgs, shown>>

\* The getActiveTasks tool, the tasks command or processMessage shows the
\* caller's tasks.
showTasks(op, userId, chatId) ==
  /\ shown' = [op |-> op, user |-> userId, chat |-> chatId,
               result |-> viewOf(op, tasks, userId, chatId)]
  /\ UNCHANGED <<modelVars, snd, req, lst, hnd, msgs, acc>>

\* ---------------------------------------------------------- specifications
\* The image cache over time: photos, the sweep and one startTask at a time,
\* every repository allowed.
Next ==
  \/ Tick
  \/ cleanupImageCache
  \/ \E u \in UserIds, c \in ChatIds : PhotoMessage(u, c)
  \/ \E u \in UserIds, c \in ChatIds : stBegin("s1", u, c, RepoA, Description)
  \/ stCreateOk("s1", "RUNNING")
  \/ stCreateFail("s1")
  \/ stCreateTimeout("s1", "RUNNING")
  \/ stInsertOk("s1")
  \/ stInsertFail("s1")
  \/ stClear("s1")

Spec == Init /\ [][Next]_vars
\* startTask under every configuration of the allow-list, for one cache key.
InitStart == InitWith(EnvValues)

NextStart ==
  \/ Tick
  \/ cleanupImageCache
  \/ PhotoMessage(1, 10)
  \/ \E r \in Repos : stBegin("s1", 1, 10, r, Description)
  \/ \E s \in CreateStatuses : stCreateOk("s1", s)
  \/ stCreateFail("s1")
  \/ \E s \in CreateStatuses : stCreateTimeout("s1", s)
  \/ stInsertOk("s1")
  \/ stInsertFail("s1")
  \/ stClear("s1")

SpecStart == InitStart /\ [][NextStart]_vars

\* One task from its creation on: startTask until the service has created an
\* agent, then the service, the monitor cycles one at a time and the
\* getTaskStatus and stopTask tools, called with the id of an agent or with
\* one the service does not know; the image cache is left empty. The /clear
\* command may come at any time.
NextTasks ==
  \/ agents = <<>> /\ stBegin("s1", 1, 10, RepoA, Description)
  \/ \E s \in CreateStatuses : stCreateOk("s1", s)
  \/ stCreateFail("s1")
  \/ stInsertOk("s1")
  \/ stInsertFail("s1")
  \/ stClear("s1")
  \/ \E id \in 1..Len(agents), s \in {"RUNNING", "FINISHED", "ERROR", "EXPIRED"} :
       RemoteAdvance(id, s)
  \/ monStart("m1")
  \/ monRemote("m1")
  \/ monFail("m1")
  \/ monReceive("m1")
  \/ monSendOk("m1")
  \/ monSendFail("m1")
  \/ \E id \in 1..(Len(agents) + 1) : getTaskStatusBegin("t1", id)
  \/ \E id \in 1..(Len(agents) + 1) : stopTaskBegin("t1", id)
  \/ getTaskStatusRemote("t1")
  \/ stopTaskRemote("t1")
  \/ toolFail("t1")
  \/ getTaskStatusReceive("t1")
  \/ stopTaskReceive("t1")
  \/ clearHistory(1, 10)

\* The bot starts over a database file that holds a conversation.
InitTasks == InitStore({Unset}, {[EmptyStore EXCEPT !.log = StoredLog]})

SpecTasks == InitTasks /\ [][NextTasks]_vars

\* Two turns at once for the same chat, one of each process: the first as
\* long as the LLM asks for tools, the second for a few steps.
NextLoop ==
  \/ turn["a1"].pc = "idle" /\ pmBegin("a1", 1, 10, "hi")
  \/ llmToolStep("a1", <<ToolCall("getRepos", "", FALSE)>>)
  \/ llmText("a1", "done")
  \/ llmFail("a1")
  \/ pmFinish("a1")
  \/ turn["a2"].pc = "idle" /\ pmBegin("a2", 1, 10, "hi")
  \/ /\ turn["a2"].stepCount < MaxRequests
     /\ llmToolStep("a2", <<ToolCall("getRepos", "", FALSE)>>)
  \/ llmText("a2", "done")
  \/ llmFail("a2")
  \/ pmFinish("a2")

SpecLoop == Init /\ [][NextLoop]_vars

\* The steps of a turn after its beginning.
TurnStep(t) ==
  \/ llmToolStep(t, <<ToolCall("getRepos", "", FALSE)>>)
  \/ llmText(t, "done")
  \/ llmFail(t)
  \/ pmFinish(t)

\* One turn after another, each as long as the LLM asks for tools. Every call
\* processMessage awaits (the LLM, a tool, the store) returns or fails, and
\* the event loop then runs the continuation.
NextTurn ==
  \/ pmBegin("a1", 1, 10, "hi")
  \/ TurnStep("a1")

SpecTurn == Init /\ [][NextTurn]_vars /\ WF_vars(TurnStep("a1"))

\* What the LLM may ask for in one step: a tool that works, a tool whose
\* remote call or store operation fails, button messages.
ToolCallChoices ==
  {<<ToolCall("getRepos", "", FALSE)>>,
   <<ToolCall("getRepos", "", TRUE)>>,
   <<ToolCall("getAvailableModels", "", TRUE)>>,
   <<ToolCall("getActiveTasks", "", TRUE)>>,
   <<ToolCall("sendButtonMessage", "A", FALSE)>>,
   <<ToolCall("sendButtonMessage", "B", FALSE)>>,
   <<ToolCall("sendButtonMessage", "A", FALSE),
     ToolCall("sendButtonMessage", "B", FALSE)>>,
   <<ToolCall("getRepos", "", FALSE), ToolCall("sendButtonMessage", "B", FALSE)>>}

\* A turn over a stored conversation, the LLM asking for tools a few times.
\* The clock is read when the turn begins and when it stores the response, so
\* time passing before either is all that matters.
InitAgent == InitStore({Unset}, AgentStores)

NextAgent ==
  \/ turn["a1"].pc \in {"idle", "finish"} /\ Tick
  \/ turn["a1"].pc = "idle" /\ pmBegin("a1", 1, 10, "hi")
  \/ \E toolCalls \in ToolCallChoices :
       /\ turn["a1"].stepCount < MaxRequests
       /\ llmToolStep("a1", toolCalls)
  \/ llmText("a1", "done")
  \/ llmFail("a1")
  \/ pmFinish("a1")

SpecAgent == InitAgent /\ [][NextAgent]_vars

\* The monitor over a tasks table kept from earlier runs.
InitCycle == InitStore({Unset}, CycleStores)

NextCycle ==
  \/ \E id \in 1..Len(agents), s \in {"FINISHED", "ERROR", "EXPIRED"} :
       RemoteAdvance(id, s)
  \/ monStart("m1")
  \/ monRemote("m1")
  \/ monFail("m1")
  \/ monReceive("m1")
  \/ monSendOk("m1")
  \/ monSendFail("m1")

SpecCycle == InitCycle /\ [][NextCycle]_vars

\* The handlers of one chat, one update at a time: photos of a user, and
\* turns whose step calls startTask once or twice, the calls of one step
\* running side by side; the sweep and the clock go on meanwhile.
NextDispatch ==
  \/ Tick
  \/ cleanupImageCache
  \/ /\ nextUpdate(\E p \in StartProcs : running(st[p]))
     /\ PhotoMessage(1, 10)
  \/ \E p \in StartProcs :
       \/ /\ \/ nextUpdate(\E q \in StartProcs : running(st[q]))
             \/ \E q \in StartProcs : st[q].pc = "create"
          /\ stBegin(p, 1, 10, RepoA, Description)
       \/ stCreateOk(p, "RUNNING")
       \/ stCreateFail(p)
       \/ stCreateTimeout(p, "RUNNING")
       \/ stInsertOk(p)
       \/ stInsertFail(p)
       \/ stClear(p)

SpecDispatch == Init /\ [][NextDispatch]_vars

\* setInterval(monitorTasks, 60000) over a tasks table kept from earlier
\* runs: the timer fires once a minute, the k-th cycle starts in minute k
\* whether or not the one before has ended, so that two cycles may be under
\* way.
NextOverlap ==
  \/ Tick
  \/ \E id \in 1..Len(agents), s \in {"FINISHED", "ERROR", "EXPIRED"} :
       RemoteAdvance(id, s)
  \/ \E m \in MonProcs :
       \/ cycles + 1 = now /\ monStart(m)
       \/ monRemote(m)
       \/ monFail(m)
       \/ monReceive(m)
       \/ monSendOk(m)
       \/ monSendFail(m)

SpecOverlap == InitCycle /\ [][NextOverlap]_vars

\* One safeSendMessage or safeReply execution; the platform answers every
\* send and the backoff timer fires.
NextSend ==
  \/ \E fn \in SendFns, mode \in ParseModes : sendBegin(fn, mode)
  \/ \E result \in SendResults : sendPrimary(result)
  \/ \E result \in SendResults : sendHtml(result)
  \/ \E result \in SendResults : sendPlain(result)
  \/ sendBackoff

SpecSend == Init /\ [][NextSend]_vars /\ WF_vars(NextSend)

\* Turns of one chat through processUserMessage, with store operations and
\* sends that may fail.
NextHandler ==
  \/ hBegin("a1", 1, 10, "hi")
  \/ \E ok \in BOOLEAN :
       \E fails \in SUBSET {"saveConversationMessage", "getConversationHistory",
                            "getActiveTasks"} : hTyping("a1", ok, fails)
  \/ \E id \in 1..MaxTurns : hTimer("a1", id)
  \/ \E traceFails \in BOOLEAN :
       /\ Cardinality({k \in 1..Len(steps) : steps[k].by = hnd["a1"].id}) = 0
       /\ "saveConversationStep" \notin hnd["a1"].failed
       /\ hStep("a1", 1, traceFails)
  \/ \E outcome \in {"text", "button", "error"} :
       \E fails \in SUBSET {"saveConversationMessage", "saveMessage"} :
         hFinish("a1", outcome, fails)
  \/ \E ok \in BOOLEAN : hReply("a1", ok)
  \/ \E ok \in BOOLEAN : hReplyError("a1", ok)

SpecHandler == Init /\ [][NextHandler]_vars

\* Two requests of the remote client at once; the service answers each, late
\* or never.
NextRequest ==
  \E r \in ReqProcs :
    \/ reqBegin(r)
    \/ \E status \in Statuses : reqHeaders(r, status)
    \/ reqNetworkFail(r)
    \/ reqTimeout(r)
    \/ \E ok \in BOOLEAN : reqJson(r, ok)
    \/ reqText(r)
    \/ reqLate(r)

SpecRequest == Init /\ [][NextRequest]_vars

\* Calls of listRepositories and listModels by two client instances while
\* time passes and the service answers.
NextLists ==
  \/ Tick
  \/ \E inst \in Instances, e \in Endpoints : listCall(inst, e)
  \/ \E rid \in 1..MaxLists, ok \in BOOLEAN : listSettle(rid, ok)

SpecLists == Init /\ [][NextLists]_vars

\* Photos of the users of a chat, with and without caption, while time
\* passes; downloads and sends may fail. bot.start() handles one update after
\* the other.
NextPhoto ==
  \/ Tick
  \/ \E userId \in UserIds, caption \in {"", "fix it"} :
       photoBegin("a1", userId, 10, caption)
  \/ \E ok \in BOOLEAN : photoDownloaded("a1", ok)
  \/ \E ok \in BOOLEAN : photoReply("a1", ok)
  \/ hTyping("a1", TRUE, {})
  \/ \E outcome \in {"text", "error"} : hFinish("a1", outcome, {})
  \/ \E ok \in BOOLEAN : hReply("a1", ok)
  \/ hReplyError("a1", TRUE)

SpecPhoto == Init /\ [][NextPhoto]_vars

\* Updates of senders and chats under each value of ALLOWED_USERS.
InitAccess == InitEnv({Unset}, {EmptyStore}, AllowedUsersValues)

NextAccess ==
  \E from \in Senders, chat \in Chats, replyOk \in BOOLEAN :
    accessUpdate(from, chat, replyOk)

SpecAccess == InitAccess /\ [][NextAccess]_vars

\* The three views over every small tasks table.
InitView == InitStore({Unset}, ViewStores)

NextView ==
  \E op \in ViewOps, userId \in UserIds, chatId \in ViewChats :
    showTasks(op, userId, chatId)

SpecView == InitView /\ [][NextView]_vars

\* getTaskStatus and stopTask called in turns of the users of two chats, with
\* the id of any agent or of none, over a tasks table with two running tasks
\* of these users and chats; the service moves the agents on.
OwnerStores ==
  { [agents |-> <<"RUNNING", "RUNNING">>,
     tasks |-> [id \in 1..2 |->
                  TaskRow(user[id], chat[id], id, RepoA, Description, "RUNNING")],
     log |-> <<>>] :
      user \in [1..2 -> UserIds], chat \in [1..2 -> ViewChats] }

InitOwner == InitStore({Unset}, OwnerStores)

NextOwner ==
  \/ \E id \in 1..Len(agents), s \in {"FINISHED", "ERROR", "EXPIRED"} :
       RemoteAdvance(id, s)
  \/ \E op \in {"getTaskStatus", "stopTask"}, userId \in UserIds,
        chatId \in ViewChats, id \in 1..(Len(agents) + 1) :
       toolBeginAs("t1", op, userId, chatId, id)
  \/ getTaskStatusRemote("t1")
  \/ stopTaskRemote("t1")
  \/ toolFail("t1")
  \/ getTaskStatusReceive("t1")
  \/ stopTaskReceive("t1")

SpecOwner == InitOwner /\ [][NextOwner]_vars

\* ------------------------------------------------------------------ claims
\* The group of a key is older than the TTL.
Expired(fs, t, key) == fs[key].exists /\ t - fs[key].mtime > CACHE_TTL

\* The images of a key's group that is not older than the TTL.
Unexpired(fs, t, key) ==
  IF fs[key].exists /\ t - fs[key].mtime <= CACHE_TTL
    THEN fs[key].images ELSE <<>>

\* C1: a read of a group whose file is older than the TTL returns the empty
\* list and removes the file, and a read right after it returns the empty
\* list too and changes nothing; a startTask that made such a read sends no
\* image and a photo handler that made it stores the new image alone.
C1_ExpiredReadIsEmpty ==
  /\ \A u \in UserIds, c \in ChatIds :
       LET key == <<u, c>>
           read == getImagesFromCache(files, now, u, c)
           again == getImagesFromCache(read.files, now, u, c)
       IN  Expired(files, now, key) =>
             /\ read.images = <<>>
             /\ ~read.files[key].exists
             /\ again.images = <<>>
             /\ again.files = read.files
  /\ (ev.op = "start" /\ ev.expired /\ st[ev.proc].pc = "create") =>
       /\ ~st[ev.proc].body.images.present
       /\ ~files[ev.key].exists
  /\ (ev.op = "photo" /\ ev.expired) => files[ev.key].images = <<nextImg>>

C1_Witness ==
  /\ ev.op = "start" /\ ev.expired /\ st[ev.proc].pc = "create"
  /\ \E key \in Keys : Expired(files, now, key)

\* C2: after N appends to a key that had no group, each within the TTL of
\* the one before and with no clear or startTask in between, a read within
\* the TTL of the last append returns the N images in append order, and the
\* file's clock is the time of the last append.
C2_AppendsAccumulate ==
  \A u \in UserIds, c \in ChatIds :
    LET key == <<u, c>>
    IN  (chainOk[key] /\ now - lastAppend[key] <= CACHE_TTL) =>
          /\ getImagesFromCache(files, now, u, c).images = chain[key]
          /\ files[key].mtime = lastAppend[key]

C2_Witness ==
  \E key \in Keys :
    /\ chainOk[key] /\ Len(chain[key]) >= 2
    /\ lastAppend[key] > 0 /\ now > lastAppend[key]
    /\ now - lastAppend[key] <= CACHE_TTL

\* C3: a photo appended when the key's group is older than the TTL, or was
\* removed for being older, leaves a group of exactly the new image, and no
\* read ever returns an image of a group that was found older than the TTL.
C3_AppendAfterExpiry ==
  /\ (ev.op = "photo" /\ (ev.expired \/ ~ev.existed)) =>
       /\ files[ev.key].images = <<nextImg>>
       /\ files[ev.key].mtime = now
  /\ \A u \in UserIds, c \in ChatIds :
       Range(getImagesFromCache(files, now, u, c).images) \cap dead = {}

C3_Witness ==
  /\ ev.op = "photo" /\ ev.expired /\ dead # {}
  /\ files[ev.key].images = <<nextImg>>

\* C4: a sweep deletes exactly the groups whose age is greater than the TTL
\* and leaves every other group, its images and its write time, as it was.
C4_SweepExact ==
  [][ev'.op = "sweep" =>
       \A key \in Keys :
         files'[key] = IF Expired(files, now, key) THEN Absent ELSE files[key]]_vars

C4_Witness ==
  /\ ev.op = "sweep" /\ ev.expired
  /\ \E key \in Keys : files[key].exists /\ now - files[key].mtime = CACHE_TTL

\* C5: a clear leaves the key without a group and every other key as it was,
\* changes nothing when the key had no group, and clearing again changes
\* nothing; a read after it returns the empty list.
C5_ClearIdempotent ==
  [][ev'.op = "clear" =>
       LET key == ev'.key
           again == clearImagesFromCache(files', key[1], key[2])
       IN  /\ ~files'[key].exists
           /\ \A other \in Keys \ {key} : files'[other] = files[other]
           /\ ~files[key].exists => files' = files
           /\ again = files'
           /\ getImagesFromCache(files', now', key[1], key[2]).images = <<>>]_vars

C5_Witness == ev.op = "clear" /\ ~ev.existed /\ \E key \in Keys : files[key].exists

\* C6: the create request of a startTask carries exactly the images of the
\* key's group that is not older than the TTL, and no images field when
\* there are none; only the step after the insert of the task row changes
\* the cache, the row is in the table when it clears the group, and a read
\* after it returns the empty list.
C6_StartTaskConsumesImages ==
  [][/\ \A p \in StartProcs :
          (ev'.op = "start" /\ ev'.proc = p /\ st'[p].pc = "create") =>
            LET k == Unexpired(files, now, ev'.key)
            IN  st'[p].body.images =
                  IF Len(k) = 0 THEN Undefined ELSE Some(k)
     /\ \A p \in StartProcs :
          (st[p].pc \in {"create", "insert"} /\ st'[p] # st[p]) =>
            files' = files
     /\ \A p \in StartProcs :
          (ev'.op = "clear" /\ ev'.proc = p) =>
            /\ st[p].taskId \in 1..Len(tasks)
            /\ tasks[st[p].taskId].composer_id = st[p].remoteId
            /\ tasks[st[p].taskId].user_id = ev'.key[1]
            /\ tasks[st[p].taskId].chat_id = ev'.key[2]
            /\ st'[p].ret.kind = "success"
            /\ st'[p].ret.attached = Len(st[p].body.images.list)
            /\ getImagesFromCache(files', now', ev'.key[1], ev'.key[2]).images
                 = <<>>]_vars

C6_Witness ==
  /\ ev.op = "clear" /\ ev.existed
  /\ st[ev.proc].ret.kind = "success" /\ st[ev.proc].ret.attached = 2

\* C7: with a non-empty allow-list that does not hold the requested
\* repository, startTask returns the error naming the list, sends no create
\* request, writes no task row and leaves the cache as it was; with an empty
\* allow-list it rejects no repository.
ConfiguredRepos ==
  IF ~env.set \/ env = EmptyString
    THEN {}
    ELSE {env.items[i].url : i \in 1..Len(env.items)}

C7_AllowList ==
  [][\A p \in StartProcs :
       (ev'.op = "start" /\ ev'.proc = p) =>
         LET rejected == st'[p].pc = "done" /\ st'[p].ret.kind = "error"
         IN  /\ (ConfiguredRepos # {} /\ st'[p].repo \notin ConfiguredRepos) =>
                  /\ rejected
                  /\ st'[p].ret.why = "not in allowed list"
                  /\ Range(st'[p].ret.allowed) = ConfiguredRepos
                  /\ posts' = posts
                  /\ agents' = agents
                  /\ tasks' = tasks
                  /\ files' = files
             /\ ConfiguredRepos = {} =>
                  (~rejected /\ st'[p].pc = "create")]_vars

C7_Witness ==
  /\ ev.op = "start" /\ ev.expired
  /\ st[ev.proc].ret.why = "not in allowed list"
  /\ st[ev.proc].repo = RepoX
  /\ files[ev.key].exists
  /\ posts = 0

\* The "Task completed!" messages delivered for task row id.
Completed(id) ==
  SelectSeq(sent[id], LAMBDA n : n.kind = "Task completed!")

\* C8: when a task was stored RUNNING and the service finished its agent
\* between two monitor polls, then once the later poll has dealt with the
\* task, exactly one "Task completed!" message has been delivered, to the chat
\* of the row and with its description and repository, and the row says
\* FINISHED, unless stopTask has cancelled it since; a getTaskStatus call may
\* run between the polls.
C8_OneCompletionNotice ==
  \A id \in 1..Len(tasks) :
    (/\ gh[id].armed
     /\ mev.op = "handled" /\ mev.task = id /\ mev.status = "FINISHED")
    => /\ Len(Completed(id)) = 1
       /\ Completed(id)[1].chat = tasks[id].chat_id
       /\ Completed(id)[1].description = tasks[id].task_description
       /\ Completed(id)[1].repo = tasks[id].repo_url
       /\ tasks[id].status \in {"FINISHED", "CANCELLED"}

\* The row a monitor cycle is at.
monTask(m) == mon[m].tasks[mon[m].i]

\* C9: a monitor cycle that gets from the service the status the row has
\* does not take the branch that writes the row and sends a message; and the
\* last two cycles, if they observed the same status for a task, delivered at
\* most one message for it between them.
C9_NoDuplicateOnUnchanged ==
  [][/\ \A m \in MonProcs :
          (/\ mon[m].pc = "resp" /\ mon[m].resp # "fail"
           /\ mon'[m] # mon[m]
           /\ mon[m].resp = tasks[monTask(m).id].status)
          => /\ mon'[m].pc # "send"
             /\ tasks'[monTask(m).id] = tasks[monTask(m).id]
     /\ \A id \in 1..Len(gh') : gh'[id].pair <= 1]_vars

\* A monitor cycle has just received status for row id.
monReported(id, status) ==
  \E m \in MonProcs :
    /\ mon[m].pc = "resp" /\ mon[m].resp # "fail"
    /\ monTask(m).id = id
    /\ mon[m].resp = status

\* A getTaskStatus call has just received status for the agent of row id.
toolReported(id, status) ==
  \E p \in ToolProcs :
    /\ tool[p].pc = "resp" /\ tool[p].op = "getTaskStatus"
    /\ tool[p].resp # "fail"
    /\ tool[p].composerId = tasks[id].composer_id
    /\ tool[p].resp = status

\* A stopTask call has just had its delete of the agent of row id accepted.
toolDeleted(id) ==
  \E p \in ToolProcs :
    /\ tool[p].pc = "resp" /\ tool[p].op = "stopTask"
    /\ tool[p].resp = "deleted"
    /\ tool[p].composerId = tasks[id].composer_id

\* C10 as stated: the status of a row changes only in a step that has just
\* received a status for that task from the service, and to that status.
C10_OnlyReportedStatuses ==
  [][\A id \in 1..Len(tasks) :
       tasks'[id].status # tasks[id].status
       => \/ monReported(id, tasks'[id].status)
          \/ toolReported(id, tasks'[id].status)]_vars

\* C10, amended: the status of a row changes only in a step that has just
\* received a status for that task from the service, and then to that status,
\* or in stopTask after the service accepted the delete, and then to
\* CANCELLED.
C10_ReportedOrCancelled ==
  [][\A id \in 1..Len(tasks) :
       tasks'[id].status # tasks[id].status
       => \/ monReported(id, tasks'[id].status)
          \/ toolReported(id, tasks'[id].status)
          \/ toolDeleted(id) /\ tasks'[id].status = "CANCELLED"]_vars

C10_Witness ==
  \E id \in 1..Len(tasks) :
    /\ tasks[id].status = "CANCELLED"
    /\ agents[tasks[id].composer_id] = "DELETED"
    /\ sent[id] # <<>>

\* The statuses after which a task does not change any more.
TerminalStatuses == {"FINISHED", "ERROR", "EXPIRED", "CANCELLED"}

\* C11: the monitor sends a query to the service only for a task whose
\* stored status is not FINISHED, ERROR, EXPIRED or CANCELLED.
C11_TerminalNotQueried ==
  [][\A m \in MonProcs :
       (mon'[m].pc = "wait" /\ mon'[m] # mon[m])
       => tasks[mon'[m].tasks[mon'[m].i].id].status \notin TerminalStatuses]_vars

\* C13: once a row says CANCELLED, no step changes its status.
C13_CancelledIsTerminal ==
  [][\A id \in 1..Len(tasks) :
       tasks[id].status = "CANCELLED" => tasks'[id].status = "CANCELLED"]_vars

\* C12: a cycle, once it has read the active tasks, goes through all of them
\* whatever happens with each: a step of the cycle stays with the task it is
\* at, or moves to the next task of the list and sends the query for it, or,
\* at the last task, ends the cycle.
C12_CycleContinuesOnError ==
  [][\A m \in MonProcs :
       (mon[m].pc # "idle" /\ mon'[m] # mon[m])
       => \/ /\ mon'[m].pc \in {"resp", "send"}
             /\ mon'[m].i = mon[m].i
             /\ mon'[m].tasks = mon[m].tasks
          \/ /\ mon[m].i < Len(mon[m].tasks)
             /\ mon'[m].pc = "wait"
             /\ mon'[m].i = mon[m].i + 1
             /\ mon'[m].tasks = mon[m].tasks
          \/ /\ mon[m].i = Len(mon[m].tasks)
             /\ mon'[m].pc = "idle"]_vars

C12_Witness ==
  \E m \in MonProcs :
    /\ mon[m].pc = "wait"
    /\ mon[m].i = 2
    /\ mev.op \in {"failed", "undelivered"}
    /\ mev.task = mon[m].tasks[1].id

\* C14: no step removes a task row or changes anything of it but its status.
C14_RowsOnlyChangeStatus ==
  [][/\ Len(tasks') >= Len(tasks)
     /\ \A id \in 1..Len(tasks) :
          [tasks'[id] EXCEPT !.status = tasks[id].status] = tasks[id]]_vars

C14_Witness ==
  /\ log = deleteWhere(StoredLog, 1, 10)
  /\ \E id \in 1..Len(tasks) : tasks[id].status = "CANCELLED"
  /\ \E id \in 1..Len(tasks) : sent[id] # <<>>

\* C16: a turn never completes more than maxSteps steps, and every turn that
\* has begun returns: a text, a button message or the error string.
C16_TurnTerminates ==
  /\ [](\A t \in TurnProcs :
         /\ turn[t].stepCount <= maxSteps
         /\ turn[t].pc = "done" =>
              turn[t].ret.kind \in {"text", "button_message", "error"})
  /\ \A t \in TurnProcs :
       (turn[t].pc \in {"llm", "finish"}) ~> (turn[t].pc = "done")

C16_Witness ==
  \E t \in TurnProcs :
    /\ turn[t].pc = "done"
    /\ turn[t].stepCount = maxSteps
    /\ turn[t].ret.kind = "text"

\* The rows of conversation_steps the turn with that id has written.
stepsOf(id) == SelectSeq(steps, LAMBDA r : r.by = id)

\* C17: the i-th step a turn completes is stored with step number i, whatever
\* another turn does meanwhile: the rows of a turn are numbered 1, 2, ... and
\* are as many as the steps it has completed, at most maxSteps.
C17_StepNumbersPerTurn ==
  /\ \A id \in 1..nTurns :
       /\ Len(stepsOf(id)) <= maxSteps
       /\ \A i \in 1..Len(stepsOf(id)) : stepsOf(id)[i].step_number = i
  /\ \A t \in TurnProcs :
       turn[t].pc # "idle" => Len(stepsOf(turn[t].id)) = turn[t].stepCount

C17_Witness ==
  /\ turn["a1"].pc = "llm" /\ turn["a1"].stepCount >= 2
  /\ turn["a2"].pc = "llm" /\ turn["a2"].stepCount >= 2
  /\ \E i \in 1..Len(steps) - 2 :
       /\ steps[i].by = turn["a1"].id
       /\ steps[i + 1].by = turn["a2"].id
       /\ steps[i + 2].by = turn["a1"].id

\* C15: the history a turn of (user, chat) passes to the LLM is the most recent
\* 50 stored messages of that (user, chat), or all of them if there are fewer,
\* in the order in which they were stored.
C15_HistoryIsMostRecent ==
  [][\A t \in TurnProcs :
       turn[t].pc # "llm" /\ turn'[t].pc = "llm" =>
         LET mine == SelectSeq(log', LAMBDA r : r.user_id = turn'[t].key[1]
                                               /\ r.chat_id = turn'[t].key[2])
             n == Len(mine)
             from == IF n > HISTORY_LIMIT THEN n - HISTORY_LIMIT + 1 ELSE 1
         IN  turn'[t].history = [k \in 1..(n + 1 - from) |->
                                   mine[from + k - 1].message_data]]_vars

\* C18: no tool executor throws, so processMessage never returns the error
\* string because of a tool.
C18_ToolsNeverThrow == \A t \in TurnProcs : turn[t].cause # "tool"

\* C19: when the LLM call fails, processMessage returns the error string, and
\* the log is left as it was: it ends with the user message of the turn and
\* holds no response message of it.
C19_LlmFailureReturnsError ==
  [][\A t \in TurnProcs :
       turn[t].cause # "llm" /\ turn'[t].cause = "llm" =>
         /\ turn'[t].pc = "done"
         /\ turn'[t].ret = ErrorString
         /\ log' = log
         /\ log' # <<>>
         /\ log'[Len(log')].user_id = turn[t].key[1]
         /\ log'[Len(log')].chat_id = turn[t].key[2]
         /\ log'[Len(log')].message_type = "user"
         /\ log'[Len(log')].message_data =
              CoreMessage("user", <<TextPart(turn[t].message)>>)]_vars

\* The LLM call failed after a step with tool results.
C19_Witness ==
  \E t \in TurnProcs :
    /\ turn[t].pc = "done"
    /\ turn[t].cause = "llm"
    /\ turn[t].ret = ErrorString
    /\ turn[t].stepCount >= 1
    /\ turn[t].response # <<>>

\* C20: when generateText has returned, processMessage appends every response
\* message to the log, in order, and returns the first tool result of the
\* response that is a button message, or the final text if there is none.
C20_PersistThenFirstButton ==
  [][\A t \in TurnProcs :
       turn[t].pc = "finish" /\ turn'[t].pc = "done" =>
         LET response == turn[t].response
             results == toolResults(response)
             buttons == {k \in 1..Len(results) : results[k].type = "button_message"}
             first == CHOOSE k \in buttons : \A other \in buttons : k <= other
         IN  /\ Len(log') = Len(log) + Len(response)
             /\ SubSeq(log', 1, Len(log)) = log
             /\ \A k \in 1..Len(response) :
                  /\ log'[Len(log) + k].message_data = response[k]
                  /\ log'[Len(log) + k].message_type = response[k].role
                  /\ log'[Len(log) + k].user_id = turn[t].key[1]
                  /\ log'[Len(log) + k].chat_id = turn[t].key[2]
             /\ IF buttons = {}
                  THEN turn'[t].ret = FinalText(turn[t].text)
                  ELSE /\ turn'[t].ret.kind = "button_message"
                       /\ turn'[t].ret.text = results[first].text
                       /\ turn'[t].ret.buttons = results[first].buttons]_vars

\* A turn whose response holds the button message A and, after it, the button
\* message B, has returned A and stored the response.
C20_Witness ==
  \E t \in TurnProcs :
    LET results == toolResults(turn[t].response)
    IN  /\ turn[t].pc = "done"
        /\ turn[t].ret = ButtonMessage(ButtonPayload("A"))
        /\ \E i, j \in 1..Len(results) :
             /\ i < j
             /\ results[i] = ButtonPayload("A")
             /\ results[j] = ButtonPayload("B")
        /\ \E k \in 1..Len(log) : log[k].message_type = "tool"

\* C22: safeSendMessage and safeReply end: they make at most maxRetries = 3
\* sends of the loop with a backoff wait between two of them, return as soon
\* as a send is accepted and send nothing after it, and throw the failure
\* after the third attempt when no send was accepted.
C22_SendTerminates ==
  LET n == Len(snd.sends)
      primaries == {i \in 1..n : snd.sends[i].role = "primary"}
      accepted == {i \in 1..n : snd.sends[i].result = "ok"}
  IN  /\ [](/\ Cardinality(primaries) <= maxRetries
            /\ \A i, j \in primaries :
                 i < j => \E k \in (i + 1)..(j - 1) : snd.sends[k].role = "wait"
            /\ accepted # {} => accepted = {n} /\ snd.pc = "returned"
            /\ snd.pc = "returned" => accepted = {n}
            /\ snd.pc = "thrown" =>
                 /\ accepted = {}
                 /\ Cardinality(primaries) = maxRetries
                 /\ snd.attempt = maxRetries
                 /\ snd.error \in {"parse", "other"})
      /\ (snd.pc # "idle" ~> snd.pc \in {"returned", "thrown"})

\* The first two attempts failed with their fallbacks and the third attempt
\* was delivered by a fallback.
C22_Witness ==
  /\ snd.pc = "returned"
  /\ snd.attempt = maxRetries
  /\ snd.sends[Len(snd.sends)].role = "fallback"
  /\ Cardinality({i \in 1..Len(snd.sends) : snd.sends[i].role = "wait"}) = 2

\* C23: a fallback is sent only after the send of the loop was rejected with a
\* parse error: HTML next and only when the parse mode was Markdown, plain
\* text only after the HTML send failed or was skipped; after any other
\* rejection no fallback is sent.
C23_FallbackOrder ==
  LET n == Len(snd.sends)
      e(i) == snd.sends[i]
      rejected(i) == e(i).role = "primary" /\ e(i).result = "parse"
      html(i) == e(i).role = "fallback" /\ e(i).fmt = "HTML"
      plain(i) == e(i).role = "fallback" /\ e(i).fmt = "none"
  IN  \A i \in 1..n :
        /\ e(i).role = "primary" => e(i).fmt = snd.mode /\ e(i).text = "text"
        /\ e(i).role = "fallback" => i > 1 /\ (html(i) \/ plain(i))
        /\ html(i) => snd.mode = "Markdown" /\ rejected(i - 1)
                      /\ e(i).text = "htmlText"
        /\ plain(i) => /\ e(i).text = "text"
                       /\ \/ html(i - 1) /\ e(i - 1).result # "ok"
                          \/ rejected(i - 1) /\ snd.mode # "Markdown"
        /\ i < n /\ rejected(i) =>
             IF snd.mode = "Markdown" THEN html(i + 1) ELSE plain(i + 1)
        /\ i < n /\ html(i) => plain(i + 1)
        /\ i < n /\ e(i).role = "primary" /\ e(i).result = "other" =>
             e(i + 1).role = "wait"

\* A Markdown message went through Markdown, HTML and plain text in one
\* attempt, and another send was rejected for another reason.
C23_Witness ==
  /\ snd.mode = "Markdown"
  /\ \E i \in 1..Len(snd.sends) :
       /\ i + 2 <= Len(snd.sends)
       /\ snd.sends[i].role = "primary" /\ snd.sends[i].result = "parse"
       /\ snd.sends[i + 1].fmt = "HTML" /\ snd.sends[i + 1].result # "ok"
       /\ snd.sends[i + 2].fmt = "none" /\ snd.sends[i + 2].role = "fallback"
  /\ \E i \in 1..Len(snd.sends) :
       snd.sends[i].role = "primary" /\ snd.sends[i].result = "other"

\* C21: a turn in which writes to the conversation log, the step trace or the
\* messages table failed, and nothing else, delivers the response of
\* processMessage to the user.
C21_ResponseDelivered ==
  \A t \in TurnProcs :
    /\ hnd[t].pc = "done"
    /\ hnd[t].failed # {}
    /\ hnd[t].failed \subseteq
         {"saveConversationMessage", "saveConversationStep", "saveMessage"}
    => /\ hnd[t].response # NoReturn
       /\ hnd[t].reply = hnd[t].response

\* C24: a typing interval is scheduled only while processMessage of its turn
\* is running: none is left when the turn has returned or thrown, and none of
\* an earlier turn is left in a later one.
C24_TypingTimerCancelled ==
  \A t \in TurnProcs :
    /\ hnd[t].timers \subseteq {hnd[t].id}
    /\ hnd[t].timers # {} => hnd[t].pc = "llm"

\* The first turn of a chat returned and was stored; its second turn is over
\* after processMessage threw in it.
C24_Witness ==
  /\ hnd["a1"].id = 2
  /\ hnd["a1"].pc = "done"
  /\ "getConversationHistory" \in hnd["a1"].failed
  /\ hnd["a1"].timers = {}
  /\ Len(msgs) = 1

\* C25: a request has one outcome: the body for a 2xx answer, a rejection for
\* another status, a network failure or the timeout; its timer is cancelled
\* with the outcome, an answer after the abort is not returned, and as long
\* as it has no outcome its timer is scheduled, so that the timeout ends it.
C25_OneOutcome ==
  \A r \in ReqProcs :
    /\ req[r].pc = "done" <=> req[r].outcome # "none"
    /\ req[r].outcome = "value" => req[r].status \in {200, 204} /\ ~req[r].aborted
    /\ req[r].outcome = "rejected" => req[r].cause \in {"status", "network", "timeout"}
    /\ req[r].cause = "status" => req[r].status = 500
    /\ req[r].aborted => req[r].outcome = "rejected" /\ req[r].cause = "timeout"
    /\ req[r].pc = "done" => ~req[r].timer
    /\ req[r].pc \in {"fetch", "json", "text"} => req[r].timer

\* The requests of an endpoint that the service has not answered.
PendingOf(l, e) ==
  {rid \in 1..Len(l.requests) :
     l.requests[rid].endpoint = e /\ l.requests[rid].state = "pending"}

\* A call of the endpoint is made in this step.
Called(e) ==
  /\ lst'.calls = lst.calls + 1
  /\ lst'.call.endpoint = e

\* C26: at most one request per endpoint is pending, whichever instances
\* call; a call made while a request of its endpoint is pending sends no
\* request and gets the result of the pending one.
C26_InFlightDedup ==
  /\ [](\A e \in Endpoints : Cardinality(PendingOf(lst, e)) <= 1)
  /\ [][\A e \in Endpoints :
          Called(e) /\ PendingOf(lst, e) # {} =>
            /\ lst'.requests = lst.requests
            /\ lst'.call.kind = "joined"
            /\ lst'.call.request \in PendingOf(lst, e)]_vars

\* Two instances called listModels and share one request.
C26_Witness ==
  /\ lst.calls = 2
  /\ lst.call.endpoint = "/v0/models"
  /\ lst.call.kind = "joined"
  /\ lst.call.request = 1
  /\ lst.requests[1].endpoint = "/v0/models"
  /\ lst.requests[1].state = "pending"
  /\ lst.requests[1].inst # lst.call.inst
  /\ Len(lst.requests) = 1

\* C27 as stated: after a fetch completed at t, a call at t' with t' - t below
\* the TTL returns the cached response without a request, and a call with
\* t' - t at or above the TTL sends a new request.
C27_TtlExact ==
  [][\A e \in Endpoints :
       Called(e) /\ lst.cache[e] # 0 =>
         LET call == lst'.call
         IN  IF now - lst.cacheAt[e] < ttlOf(e)
               THEN /\ call.kind = "cache"
                    /\ call.request = lst.cache[e]
                    /\ lst'.requests = lst.requests
               ELSE /\ call.kind = "new"
                    /\ Len(lst'.requests) = Len(lst.requests) + 1]_vars

\* C27, amended: ... and a call with t' - t at or above the TTL sends a new
\* request unless a request of the endpoint is pending, which it then joins.
C27_TtlOrJoin ==
  [][\A e \in Endpoints :
       Called(e) /\ lst.cache[e] # 0 =>
         LET call == lst'.call
         IN  IF now - lst.cacheAt[e] < ttlOf(e)
               THEN /\ call.kind = "cache"
                    /\ call.request = lst.cache[e]
                    /\ lst'.requests = lst.requests
             ELSE IF PendingOf(lst, e) = {}
               THEN /\ call.kind = "new"
                    /\ Len(lst'.requests) = Len(lst.requests) + 1
                    /\ PendingOf(lst', e) = {call.request}
             ELSE /\ call.kind = "joined"
                  /\ lst'.requests = lst.requests]_vars

\* listModels was fetched, answered from the cache one minute later, and
\* fetched again at the age of the TTL: the third call found the response of
\* the first request and sent the second.
C27_Witness ==
  /\ lst.calls = 3
  /\ lst.call.endpoint = "/v0/models"
  /\ lst.call.kind = "new"
  /\ lst.call.request = 2
  /\ lst.call.at = lst.cacheAt["/v0/models"] + modelsCacheTtlMs
  /\ lst.cache["/v0/models"] = 1
  /\ \A rid \in 1..2 : lst.requests[rid].endpoint = "/v0/models"

\* C28: a photo without caption of a user whose unexpired group is G makes the
\* group G followed by the new image (the image alone if there is no group or
\* it has expired) and sends the 'received' reply with the new total; no turn
\* of the orchestrator begins, no task row is written and no agent is created.
C28_PhotoWithoutCaption ==
  [][\A t \in TurnProcs :
       LET h == hnd[t]
           key == getCacheKey(h.key[1], h.key[2])
           G == IF files[key].exists /\ now - files[key].mtime <= CACHE_TTL
                  THEN files[key].images ELSE <<>>
       IN  /\ h.pc = "download" /\ h.message = "" /\ hnd'[t].pc # "download" =>
             /\ hnd'[t].pc \in {"replyPhoto", "replyError"}
             /\ hnd'[t].pc = "replyPhoto" =>
                  /\ files'[key].exists
                  /\ files'[key].images = Append(G, nextImg')
                  /\ nextImg' = nextImg + 1
                  /\ hnd'[t].total = Len(G) + 1
                  /\ \A other \in Keys \ {key} : files'[other] = files[other]
             /\ hnd'[t].pc = "replyError" => files' = files
             /\ UNCHANGED <<agentVars, taskVars, startVars, monVars, msgs>>
           /\ h.pc = "replyPhoto" /\ hnd'[t].pc # "replyPhoto" =>
             /\ hnd'[t].reply = ReceivedReply \/ hnd'[t].pc = "replyError"
             /\ hnd'[t].total = h.total
             /\ UNCHANGED <<files, agentVars, taskVars, startVars, monVars, msgs>>]_vars

\* The second photo without caption of a user was added to the group of the
\* first and the reply with the total of 2 was delivered.
C28_Witness ==
  \E t \in TurnProcs :
    /\ hnd[t].pc = "done"
    /\ hnd[t].message = ""
    /\ hnd[t].reply = ReceivedReply
    /\ hnd[t].total = 2
    /\ files[getCacheKey(hnd[t].key[1], hnd[t].key[2])].images = <<1, 2>>
    /\ nTurns = 0

\* The allow-list is configured: ALLOWED_USERS is a non-empty string.
Configured == acc.allowed.set /\ acc.allowed # EmptyString

\* An id is in the list.
Listed(id) ==
  \E i \in 1..Len(acc.allowed.items) : acc.allowed.items[i].url = ToString(id)

\* The middleware handles an update in this step.
Handled == acc'.upd.outcome # "none" /\ acc' # acc

\* C29 as stated: with a list, an update whose sender and chat are both not in
\* it is sent the access-denied reply, is not passed on and writes no row;
\* without a list every update is passed on.
C29_AccessControl ==
  [][Handled =>
       LET u == acc'.upd
       IN  /\ Configured /\ ~Listed(u.from) /\ ~Listed(u.chat) =>
                /\ u.outcome # "passed"
                /\ acc'.users = acc.users /\ acc'.chats = acc.chats
                /\ u.from # 0 /\ u.chat # 0 =>
                     /\ u.outcome = "denied"
                     /\ Len(acc'.denials) = Len(acc.denials) + 1
           /\ ~Configured => u.outcome = "passed"]_vars

\* C29, amended: ... without a list every update that has a sender and a chat
\* is passed on; an update without a sender or without a chat is dropped,
\* with or without a list. An update is denied only as stated.
C29_AccessControlOfSenders ==
  [][Handled =>
       LET u == acc'.upd
           present == u.from # 0 /\ u.chat # 0
       IN  /\ ~present =>
                /\ u.outcome = "dropped"
                /\ acc'.users = acc.users /\ acc'.chats = acc.chats
                /\ acc'.denials = acc.denials
           /\ present /\ Configured /\ ~Listed(u.from) /\ ~Listed(u.chat) =>
                /\ u.outcome = "denied"
                /\ acc'.users = acc.users /\ acc'.chats = acc.chats
                /\ Len(acc'.denials) = Len(acc.denials) + 1
                /\ acc'.denials[Len(acc'.denials)].chat = u.chat
           /\ present /\ (~Configured \/ Listed(u.from) \/ Listed(u.chat)) =>
                /\ u.outcome = "passed"
                /\ acc'.users = acc.users \cup {u.from}
                /\ acc'.chats = acc.chats \cup {u.chat}
                /\ acc'.denials = acc.denials]_vars

\* With the list " 2,10", user 1 was passed on in chat 10 and then denied in
\* chat 20.
C29_Witness ==
  /\ acc.allowed = EnvString(<<Raw("2", TRUE), Raw("10", FALSE)>>)
  /\ acc.users = {1}
  /\ acc.chats = {10}
  /\ acc.upd = Update(1, 20, "denied")
  /\ Len(acc.denials) = 1

\* The tables that differ from rows in one task of others than (userId,
\* chatId): one such row is another row of somebody else, or is added at the
\* end, or the last row is gone. Tables that differ in several tasks of others
\* are linked by a chain of these.
OthersVary(rows, userId, chatId) ==
  LET n == Len(rows)
      notMine == {id \in 1..n :
                    ~(rows[id].user_id = userId /\ rows[id].chat_id = chatId)}
      others == {TaskRow(u, c, 0, RepoA, Description, status) :
                   u \in UserIds, c \in ViewChats,
                   status \in {"RUNNING", "FINISHED", "CANCELLED"}}
      foreign == {r \in others : ~(r.user_id = userId /\ r.chat_id = chatId)}
  IN  { [rows EXCEPT ![id] = [r EXCEPT !.composer_id = id]] :
          id \in notMine, r \in foreign }
      \cup { Append(rows, [r EXCEPT !.composer_id = n + 1]) : r \in foreign }
      \cup (IF n \in notMine THEN {SubSeq(rows, 1, n - 1)} ELSE {})

\* C30: each of the three views shows the rows of the caller's user and chat
\* that getActiveTasks returns, and nothing else: the result is the same for
\* every table that differs only in tasks of other users or chats.
C30_OnlyCallersTasks ==
  shown.op # "none" =>
    LET mine == {id \in 1..Len(tasks) :
                   /\ tasks[id].user_id = shown.user
                   /\ tasks[id].chat_id = shown.chat
                   /\ tasks[id].status \notin {"CANCELLED", "COMPLETED"}}
        lines == shown.result.lines
    IN  /\ shown.result.count = Cardinality(mine)
        /\ {lines[k].composerId : k \in 1..Len(lines)} =
             {tasks[id].composer_id : id \in mine}
        /\ \A k \in 1..Len(lines) : \E id \in mine :
             /\ lines[k].composerId = tasks[id].composer_id
             /\ lines[k].status = tasks[id].status
             /\ lines[k].id \in {0, id}
        /\ \A other \in OthersVary(tasks, shown.user, shown.chat) :
             viewOf(shown.op, other, shown.user, shown.chat) = shown.result

\* User 1 is shown their task of chat 10 while the table also holds a task of
\* user 1 in chat 20.
C30_Witness ==
  /\ shown.op = "getActiveTasks"
  /\ shown.user = 1 /\ shown.chat = 10
  /\ shown.result.count = 1
  /\ \E i, j \in 1..Len(tasks) :
       /\ tasks[i].user_id = 1 /\ tasks[i].chat_id = 10
       /\ tasks[j].user_id = 1 /\ tasks[j].chat_id = 20
       /\ tasks[j].status = "RUNNING"

\* C31: for each change of a task's stored status at most one notification
\* is sent, also when monitor cycles overlap: a cycle delivers one message
\* after a write, so every message delivered for a row is the message of a
\* write that changed the stored status of the row.
C31_OneNoticePerChange ==
  [][\A id \in 1..Len(tasks) :
       Len(sent'[id]) > Len(sent[id]) =>
         /\ Len(sent'[id]) = Len(sent[id]) + 1
         /\ \E m \in MonProcs :
              /\ mon[m].pc = "send" /\ mon'[m].pc # "send"
              /\ mon[m].tasks[mon[m].i].id = id
              /\ mon[m].changed]_vars

C33_ImageAttachedOnce ==
  \A p, q \in StartProcs :
    (p # q /\ st[p].remoteId # 0 /\ st[q].remoteId # 0) =>
      Range(st[p].body.images.list) \cap Range(st[q].body.images.list) = {}

\* C34: when the create call of a startTask fails or times out, startTask
\* returns the error payload, the tasks table and the cache directory are as
\* they were, and a read of the key returns what it returned before: the
\* images of the group, if it is not older than the TTL.
C34_FailedCreateKeepsImages ==
  [][\A p \in StartProcs :
       (st[p].pc = "create" /\ st'[p].pc = "done") =>
         LET key == st[p].key
         IN  /\ st'[p].ret = Failed
             /\ tasks' = tasks
             /\ files' = files
             /\ getImagesFromCache(files', now', key[1], key[2]).images
                  = Unexpired(files, now, key)]_vars

\* A create call failed and the two images it carried are still read.
C34_Witness ==
  /\ st["s1"].pc = "done" /\ st["s1"].ret = Failed
  /\ tasks = <<>> /\ agents = <<>>
  /\ getImagesFromCache(files, now, 1, 10).images = <<1, 2>>

\* C35: when startTask returns the success payload, exactly one row holds
\* the returned remote id, it is the row of the returned task id, and it has
\* the caller's user and chat and the status the service reported; when
\* startTask returns an error payload, its call created no remote task.
C35_RemoteAndRowsConsistent ==
  [][\A p \in StartProcs :
       (running(st[p]) /\ st'[p].pc = "done") =>
         LET ret == st'[p].ret
             holders == {id \in 1..Len(tasks') :
                           tasks'[id].composer_id = ret.composerId}
         IN  /\ ret.kind = "success" =>
                  /\ holders = {ret.taskId}
                  /\ ret.composerId = st[p].remoteId
                  /\ tasks'[ret.taskId].user_id = st[p].key[1]
                  /\ tasks'[ret.taskId].chat_id = st[p].key[2]
                  /\ tasks'[ret.taskId].status = st[p].status
             /\ ret.kind = "error" =>
                  /\ st[p].remoteId = 0
                  /\ agents' = agents]_vars

C37_ToolsChangeOwnRowsOnly ==
  [][\A p \in ToolProcs :
       (tool[p].pc = "resp" /\ tool'[p].pc = "idle") =>
         \A id \in 1..Len(tasks) :
           tasks'[id] # tasks[id] =>
             /\ tasks[id].user_id = tool[p].caller[1]
             /\ tasks[id].chat_id = tool[p].caller[2]]_vars

\* C38: the history a turn passes to the LLM holds the message of the turn,
\* as its last element, however many messages of the (user, chat) are stored.
C38_HistoryEndsWithMessage ==
  [][\A t \in TurnProcs :
       turn[t].pc # "llm" /\ turn'[t].pc = "llm" =>
         LET history == turn'[t].history
         IN  /\ Len(history) > 0
             /\ history[Len(history)] =
                  CoreMessage("user", <<TextPart(turn'[t].message)>>)]_vars

\* The latest request of an endpoint, 0 if none was sent.
LastOf(l, e) ==
  LET sent_ == {rid \in 1..Len(l.requests) : l.requests[rid].endpoint = e}
  IN  IF sent_ = {} THEN 0 ELSE CHOOSE rid \in sent_ : \A o \in sent_ : o <= rid

\* C39: a failed fetch leaves the cached response and its time as they were
\* and clears the pending request; the callers that joined it share its
\* rejection; no call is ever answered with a request that has failed, and
\* the next call of the endpoint sends a new request.
C39_FailureNotCached ==
  /\ [][\A rid \in 1..Len(lst.requests) :
          (lst.requests[rid].state = "pending"
             /\ lst'.requests[rid].state = "rejected") =>
            LET e == lst.requests[rid].endpoint
            IN  /\ lst'.cache[e] = lst.cache[e]
                /\ lst'.cacheAt[e] = lst.cacheAt[e]
                /\ lst'.cache[e] # rid
                /\ lst.inFlight[e] = rid
                /\ lst'.inFlight[e] = 0]_vars
  /\ [][\A e \in Endpoints :
          Called(e) =>
            /\ lst'.requests[lst'.call.request].state # "rejected"
            /\ (LastOf(lst, e) # 0
                  /\ lst.requests[LastOf(lst, e)].state = "rejected") =>
                 /\ lst'.call.kind = "new"
                 /\ lst'.call.request = Len(lst.requests) + 1]_vars

\* A request that two callers shared failed, and the next call of the
\* endpoint sent a new one.
C39_Witness ==
  /\ lst.calls = 3
  /\ Len(lst.requests) = 2
  /\ lst.requests[1].state = "rejected"
  /\ lst.requests[2].endpoint = lst.requests[1].endpoint
  /\ lst.call.kind = "new" /\ lst.call.request = 2
  /\ lst.cache[lst.call.endpoint] = 0

====
